---- MODULE Spec2Model ----
(***************************************************************************)
(* Verification model of BleachBit's preferences store                     *)
(* (bleachbit/Options.py) and locale path resolver (bleachbit/Unix.py).    *)
(*                                                                         *)
(* Text that the code indexes or matches (file names, option keys built    *)
(* from counters) is a tuple of one-character strings; Join turns such a   *)
(* tuple into the string it spells.                                        *)
(***************************************************************************)
EXTENDS Integers, Sequences, FiniteSets, TLC

VARIABLES
    \* ---- Locale path resolver (Unix.py) ----
    paths,            \* Locales._paths: the rule tree
    fs,               \* the live filesystem below "/"
    locales_to_keep,  \* argument of Locales.localization_paths
    discovered,       \* items produced by _paths.get_localizations('/')
    cursor,           \* index in discovered of the item examined next
    yielded,          \* paths yielded by localization_paths so far
    outcome,          \* "idle", "running", "ok" (exhausted) or "raise"
    listed,           \* the directories os.listdir was called on, in order,
                      \* since the traversal started
    \* ---- Configuration store (Options.py) ----
    mem,              \* the in-memory parser: section -> (option -> text)
    disk,             \* bleachbit.options_file: [exists, content]
    dirExists,        \* os.path.exists(bleachbit.options_dir)
    purged,           \* Options.purged
    lastOp,           \* the operation that ran last: [name, key]
    result,           \* what it returned or raised: [status, value]
    lastFull,         \* its write found the disk full (ENOSPC)
    lastIo,           \* how its write to the file ended: "none" (no write),
                      \* "ok", "ENOSPC" or "EIO" (another I/O error)
    arg,              \* the argument of the last operation, where recorded
    debugCli,         \* Log.is_debugging_enabled_via_cli()
    \* ---- Chaff dialog (GuiChaff.py) ----
    make_button,      \* ChaffDialog.make_button is sensitive
    progressbar,      \* ChaffDialog.progressbar: [visible, text, fraction]
    thread,           \* the make_files_thread run: its position and locals
    idle,             \* calls handed to GLib.idle_add and not yet run
    sent,             \* every call the thread handed over, in order
    handled           \* the calls the main loop has run, in order

localeVars == <<paths, fs, locales_to_keep, discovered, cursor, yielded, outcome,
                listed>>
chaffVars  == <<make_button, progressbar, thread, idle, sent, handled>>
storeVars  == <<mem, disk, dirExists, purged, lastOp, result, lastFull,
                lastIo, arg, debugCli>>
vars       == <<paths, fs, locales_to_keep, discovered, cursor, yielded, outcome,
                listed,
                mem, disk, dirExists, purged, lastOp, result, lastFull,
                lastIo, arg, debugCli,
                make_button, progressbar, thread, idle, sent, handled>>

-----------------------------------------------------------------------------
(* Bounds *)

\* largest number of entries in the scanned locale directory
MaxEntries == 4

\* longest list handed to Options.set_list
MaxListLen == 11

\* longest files / folders list handed to the whitelist_paths setter
MaxPathsLen == 2

-----------------------------------------------------------------------------
(* Text helpers *)

RECURSIVE Join(_)
\* the string spelled by a tuple of one-character strings
Join(cs) == IF cs = <<>> THEN "" ELSE Head(cs) \o Join(Tail(cs))

Lower == {"a","b","c","d","e","f","g","h","i","j","k","l","m",
          "n","o","p","q","r","s","t","u","v","w","x","y","z"}
Upper == {"A","B","C","D","E","F","G","H","I","J","K","L","M",
          "N","O","P","Q","R","S","T","U","V","W","X","Y","Z"}

AllIn(cs, S) == \A i \in 1..Len(cs) : cs[i] \in S

\* cs starts with the tuple p / ends with the tuple q
StartsWith(cs, p) == Len(p) <= Len(cs) /\ SubSeq(cs, 1, Len(p)) = p
EndsWith(cs, q) ==
    Len(q) <= Len(cs) /\ SubSeq(cs, Len(cs) - Len(q) + 1, Len(cs)) = q

-----------------------------------------------------------------------------
(* Unix.py: Locales.localepattern and Locales.native_locale_names *)

\* (?P<specifier>[_-][A-Z]{2,4}) matched against the whole of cs
IsSpecifier(cs) ==
    /\ Len(cs) \in 3..5
    /\ cs[1] \in {"_", "-"}
    /\ AllIn(Tail(cs), Upper)

\* the locale group takes k letters and the rest of cs is an optional specifier
LocaleSplitOk(cs, k) ==
    /\ k <= Len(cs)
    /\ AllIn(SubSeq(cs, 1, k), Lower)
    /\ LET rest == SubSeq(cs, k + 1, Len(cs))
       IN  rest = <<>> \/ IsSpecifier(rest)

NoMatch == [matched |-> FALSE, locale |-> "", specifier |-> ""]

\* Locales.localepattern anchored on both sides, for names that carry no
\* variant (".x1", "@x") and no encoding suffix, where the two optional
\* trailing groups match the empty string.  {2,3} is greedy: 3 is tried first.
\* An unmatched specifier group is None in Python; "" stands for it here
\* because the only use is (specifier or '').
localepattern(cs) ==
    IF LocaleSplitOk(cs, 3)
    THEN [matched |-> TRUE, locale |-> Join(SubSeq(cs, 1, 3)),
          specifier |-> Join(SubSeq(cs, 4, Len(cs)))]
    ELSE IF LocaleSplitOk(cs, 2)
    THEN [matched |-> TRUE, locale |-> Join(SubSeq(cs, 1, 2)),
          specifier |-> Join(SubSeq(cs, 3, Len(cs)))]
    ELSE NoMatch

\* re.compile('^' + pre + Locales.localepattern + post + '$').match(name)
\* for a literal prefix and postfix
FilterMatch(flt, name) ==
    IF /\ Len(flt.pre) + Len(flt.post) <= Len(name)
       /\ StartsWith(name, flt.pre)
       /\ EndsWith(name, flt.post)
    THEN localepattern(SubSeq(name, Len(flt.pre) + 1, Len(name) - Len(flt.post)))
    ELSE NoMatch

\* the keys of Locales.native_locale_names
native_locale_names == {
    "aa", "ab", "ace", "ach", "ae", "af", "ak", "am", "an", "ang", "anp",
    "ar", "as", "ast", "av", "ay", "az", "ba", "bal", "be", "bg", "bh", "bi",
    "bm", "bn", "bo", "br", "brx", "bs", "byn", "ca", "ce", "cgg", "ch",
    "ckb", "co", "cr", "crh", "cs", "csb", "cu", "cv", "cy", "da", "de",
    "doi", "dv", "dz", "ee", "el", "en", "en_AU", "en_CA", "en_GB", "eo",
    "es", "es_419", "et", "eu", "fa", "ff", "fi", "fil", "fin", "fj", "fo",
    "fr", "frp", "fur", "fy", "ga", "gd", "gez", "gl", "gn", "gu", "gv",
    "ha", "haw", "he", "hi", "hne", "ho", "hr", "hsb", "ht", "hu", "hy",
    "hz", "ia", "id", "ie", "ig", "ii", "ik", "ilo", "ina", "io", "is", "it",
    "iu", "iw", "ja", "jv", "ka", "kab", "kac", "kg", "ki", "kj", "kk", "kl",
    "km", "kn", "ko", "kok", "kr", "ks", "ku", "kv", "kw", "ky", "la", "lb",
    "lg", "li", "ln", "lo", "lt", "lu", "lv", "mai", "mg", "mh", "mhr", "mi",
    "mk", "ml", "mn", "mni", "mr", "ms", "mt", "my", "na", "nb", "nd", "nds",
    "ne", "ng", "nl", "nn", "no", "nr", "nso", "nv", "ny", "oc", "oj", "om",
    "or", "os", "pa", "pap", "pau", "pi", "pl", "ps", "pt", "pt_BR", "qu",
    "rm", "rn", "ro", "ru", "rw", "sa", "sat", "sc", "sd", "se", "sg", "shn",
    "si", "sk", "sl", "sm", "sn", "so", "sq", "sr", "ss", "st", "su", "sv",
    "sw", "ta", "te", "tet", "tg", "th", "ti", "tig", "tk", "tl", "tn", "to",
    "tr", "ts", "tt", "tw", "ty", "ug", "uk", "ur", "uz", "ve", "vi", "vo",
    "wa", "wae", "wal", "wo", "xh", "yi", "yo", "za", "zh", "zh_CN", "zh_TW",
    "zu"
    }

-----------------------------------------------------------------------------
(* Unix.py: LocaleCleanerPath *)

\* A path is the sequence of its segments; "/" is the empty sequence.
\* os.path.join(basepath, p): an absolute second argument replaces the first.
os_path_join(basepath, p) == IF p = <<"/">> THEN <<>> ELSE Append(basepath, p)

os_path_isdir(f, path) == path \in f.dirs
os_listdir(f, path) == f.list[path]

\* a pattern that matches every name
PatternMatch_Any(pattern, name) == TRUE

\* a compiled directoryregex without metacharacters: re.match anchors at the
\* start of the name only
PatternMatch(pattern, name) == StartsWith(name, pattern)

RECURSIVE MatchingDirs(_, _, _, _)
MatchingDirs(f, node, basepath, names) ==
    IF names = <<>> THEN <<>>
    ELSE LET p == Head(names)
             rest == MatchingDirs(f, node, basepath, Tail(names))
         IN  IF PatternMatch(node.pattern, p)
                /\ os_path_isdir(f, os_path_join(basepath, p))
             THEN <<os_path_join(basepath, p)>> \o rest
             ELSE rest

\* LocaleCleanerPath.get_subpaths
get_subpaths(f, node, basepath) ==
    IF node.isRegex
    THEN MatchingDirs(f, node, basepath, os_listdir(f, basepath))
    ELSE LET path == os_path_join(basepath, node.pattern)
         IN  IF os_path_isdir(f, path) THEN <<path>> ELSE <<>>

RECURSIVE ScanFilter(_, _, _)
\* the loop over os.listdir(path) for one leaf filter
ScanFilter(flt, path, names) ==
    IF names = <<>> THEN <<>>
    ELSE LET element == Head(names)
             match == FilterMatch(flt, element)
             rest == ScanFilter(flt, path, Tail(names))
         IN  IF match.matched
             THEN <<[locale |-> match.locale, specifier |-> match.specifier,
                     path |-> os_path_join(path, element)]>> \o rest
             ELSE rest

RECURSIVE get_localizations(_, _, _)
RECURSIVE ForChildren(_, _, _)
RECURSIVE ForSubpaths(_, _, _)

RECURSIVE ForChildren_LastFirst(_, _, _)
\* a loop that visits the children from the last to the first
ForChildren_LastFirst(f, children, path) ==
    IF children = <<>> THEN <<>>
    ELSE LET child == Head(children)
             here == IF child.kind = "path"
                     THEN get_localizations(f, child, path)
                     ELSE ScanFilter(child, path, os_listdir(f, path))
         IN  ForChildren_LastFirst(f, Tail(children), path) \o here

\* the loop over self.children for one resolved subpath
ForChildren(f, children, path) ==
    IF children = <<>> THEN <<>>
    ELSE LET child == Head(children)
             here == IF child.kind = "path"
                     THEN get_localizations(f, child, path)
                     ELSE ScanFilter(child, path, os_listdir(f, path))
         IN  here \o ForChildren(f, Tail(children), path)

\* the loop over self.get_subpaths(basepath)
ForSubpaths(f, node, subpaths) ==
    IF subpaths = <<>> THEN <<>>
    ELSE ForChildren(f, node.children, Head(subpaths))
             \o ForSubpaths(f, node, Tail(subpaths))

\* LocaleCleanerPath.get_localizations
get_localizations(f, node, basepath) ==
    ForSubpaths(f, node, get_subpaths(f, node, basepath))

\* ---- the traversal as the sequence of what it does ----

\* os.listdir(path) is called
Listdir(path) == [ev |-> "listdir", item |-> <<>>, path |-> path]

\* an item is handed to the consumer
Yield(item) == [ev |-> "yield", item |-> item, path |-> item.path]

RECURSIVE Yields(_)
Yields(items) ==
    IF items = <<>> THEN <<>>
    ELSE <<Yield(Head(items))>> \o Yields(Tail(items))

RECURSIVE walk(_, _, _)
RECURSIVE WalkChildren(_, _, _)
RECURSIVE WalkSubpaths(_, _, _)

\* the loop over self.children for one resolved subpath: a leaf filter lists
\* the directory, then yields its matches
WalkChildren(f, children, path) ==
    IF children = <<>> THEN <<>>
    ELSE LET child == Head(children)
             here == IF child.kind = "path"
                     THEN walk(f, child, path)
                     ELSE <<Listdir(path)>>
                            \o Yields(ScanFilter(child, path,
                                                 os_listdir(f, path)))
         IN  here \o WalkChildren(f, Tail(children), path)

WalkSubpaths(f, node, subpaths) ==
    IF subpaths = <<>> THEN <<>>
    ELSE WalkChildren(f, node.children, Head(subpaths))
             \o WalkSubpaths(f, node, Tail(subpaths))

\* get_localizations with its calls of os.listdir: get_subpaths lists
\* basepath for a pattern node and nothing for a literal one
walk(f, node, basepath) ==
    (IF node.isRegex THEN <<Listdir(basepath)>> ELSE <<>>)
        \o WalkSubpaths(f, node, get_subpaths(f, node, basepath))

\* the index in events of the k-th yield, or the last index when there are
\* fewer than k
YieldAt(events, k) ==
    LET ys == {i \in DOMAIN events : events[i].ev = "yield"}
        upto(i) == Cardinality({j \in ys : j <= i})
    IN  IF Cardinality(ys) < k THEN Len(events)
        ELSE CHOOSE i \in ys : upto(i) = k

RECURSIVE ListdirsOf(_)
ListdirsOf(events) ==
    IF events = <<>> THEN <<>>
    ELSE (IF Head(events).ev = "listdir" THEN <<Head(events).path>> ELSE <<>>)
             \o ListdirsOf(Tail(events))

\* a traversal that lists every directory before it hands out its first item
ListedUpTo_Eager(events, k) == ListdirsOf(events)

\* the directories listed by the time the generator has produced its k-th
\* item, or has ended for want of one
ListedUpTo(events, k) == ListdirsOf(SubSeq(events, 1, YieldAt(events, k)))

-----------------------------------------------------------------------------
(* Unix.py: Locales.localization_paths *)

\* a guard that tests "locales_to_keep is None"
Falsy_NoneOnly(keep) == keep.isNone

\* "not locales_to_keep": None and the empty collection are both falsy
Falsy(keep) == keep.isNone \/ keep.items = {}

purgeable_locales(keep) ==
    {locale \in native_locale_names : locale \notin keep.items}

\* the condition with its second test reduced to the base language
ShouldYield_BaseOnly(item, keep) ==
    LET specific == item.locale \o item.specifier
    IN  \/ specific \in purgeable_locales(keep)
        \/ item.locale \in purgeable_locales(keep)

\* the condition without its first test
ShouldYield_NoSpecific(item, keep) ==
    LET specific == item.locale \o item.specifier
    IN  item.locale \in purgeable_locales(keep) /\ specific \notin keep.items

\* the condition without its second test
ShouldYield_SpecificOnly(item, keep) ==
    LET specific == item.locale \o item.specifier
    IN  specific \in purgeable_locales(keep)

\* the condition under which localization_paths yields the item's path
ShouldYield(item, keep) ==
    LET specific == item.locale \o item.specifier
    IN  \/ specific \in purgeable_locales(keep)
        \/ (item.locale \in purgeable_locales(keep)
            /\ specific \notin keep.items)

-----------------------------------------------------------------------------
(* Inputs of the locale resolver *)

\* names an entry of the scanned directory can have
NameUniverse == {
    <<"e","n">>, <<"e","n","_","G","B">>, <<"f","r">>,
    <<"d","e","_","D","E">>, <<"x","x">>,
    <<"R","E","A","D","M","E">> }

\* locale identifiers a keep set can hold
KeepUniverse == {"en", "en_GB", "fr", "de"}

KeepSets ==
    {[isNone |-> TRUE, items |-> {}]}
        \cup {[isNone |-> FALSE, items |-> K] : K \in SUBSET KeepUniverse}

\* duplicate-free listings of at most MaxEntries names, in every order
Listings ==
    {l \in UNION {[1..n -> NameUniverse] : n \in 0..MaxEntries} :
        \A i, j \in 1..Len(l) : i # j => l[i] # l[j]}

loc == <<"l","o","c">>

\* "/" holds loc, which is a directory with the given listing or a plain file
FsChoices ==
    {[dirs |-> {<<>>, <<loc>>},
      list |-> (<<>> :> <<loc>>) @@ (<<loc>> :> l)] : l \in Listings}
        \cup {[dirs |-> {<<>>}, list |-> (<<>> :> <<loc>>)]}

LeafFilter == [kind |-> "filter", pre |-> <<>>, post |-> <<>>]

\* Locales._paths = LocaleCleanerPath(location='/') with one child that was
\* added for <path location="loc" filter="*"/>, or for
\* <path directoryregex="lo"><regexfilter/></path>
TreeChoices ==
    {[kind |-> "path", isRegex |-> FALSE, pattern |-> <<"/">>,
      children |-> <<[kind |-> "path", isRegex |-> r,
                      pattern |-> IF r THEN <<"l","o">> ELSE loc,
                      children |-> <<LeafFilter>>]>>] : r \in BOOLEAN}

-----------------------------------------------------------------------------
(* Locales.localization_paths as a generator *)

\* a call of localization_paths and the first next() on its generator: the
\* body runs up to the guard and the traversal starts.  A generator that was
\* left running is dropped, the new one starts at the root
StartTraversal(keep) ==
    /\ locales_to_keep' = keep
    /\ IF Falsy(keep)
       THEN /\ outcome' = "raise"
            /\ discovered' = <<>>
       ELSE /\ outcome' = "running"
            /\ discovered' = get_localizations(fs, paths, <<>>)
    /\ cursor' = 1
    /\ yielded' = <<>>
    /\ listed' = <<>>
    /\ UNCHANGED <<paths, fs>>
    /\ UNCHANGED <<storeVars, chaffVars>>

\* an iteration that removes from the filesystem the directory entry it yields
NextItem_Deleting ==
    /\ outcome = "running"
    /\ cursor <= Len(discovered)
    /\ yielded' = IF ShouldYield(discovered[cursor], locales_to_keep)
                  THEN Append(yielded, discovered[cursor].path)
                  ELSE yielded
    /\ fs' = IF ShouldYield(discovered[cursor], locales_to_keep)
             THEN [fs EXCEPT !.list =
                    [d \in DOMAIN fs.list |->
                        SelectSeq(fs.list[d],
                            LAMBDA n : Append(d, n) # discovered[cursor].path)]]
             ELSE fs
    /\ cursor' = cursor + 1
    /\ listed' = ListedUpTo(walk(fs, paths, <<>>), cursor)
    /\ UNCHANGED <<paths, locales_to_keep, discovered, outcome>>
    /\ UNCHANGED <<storeVars, chaffVars>>

\* one iteration of the for loop over get_localizations('/'): the inner
\* generator runs up to its next item, listing directories on its way
NextItem ==
    /\ outcome = "running"
    /\ cursor <= Len(discovered)
    /\ yielded' = IF ShouldYield(discovered[cursor], locales_to_keep)
                  THEN Append(yielded, discovered[cursor].path)
                  ELSE yielded
    /\ cursor' = cursor + 1
    /\ listed' = ListedUpTo(walk(fs, paths, <<>>), cursor)
    /\ UNCHANGED <<paths, fs, locales_to_keep, discovered, outcome>>
    /\ UNCHANGED <<storeVars, chaffVars>>

\* the for loop ends: the inner generator runs to its end, StopIteration
Exhausted ==
    /\ outcome = "running"
    /\ cursor > Len(discovered)
    /\ outcome' = "ok"
    /\ listed' = ListedUpTo(walk(fs, paths, <<>>), cursor)
    /\ UNCHANGED <<paths, fs, locales_to_keep, discovered, cursor, yielded>>
    /\ UNCHANGED <<storeVars, chaffVars>>

-----------------------------------------------------------------------------
(* The parser Options inherits from (configparser.ConfigParser through     *)
(* libtextworker's GetConfig).  The store maps each section name to a      *)
(* function from option keys to the stored text.                           *)

EmptySection == [o \in {} |-> ""]

has_section(m, section) == section \in DOMAIN m

add_section(m, section) == (section :> EmptySection) @@ m

remove_section(m, section) == [x \in DOMAIN m \ {section} |-> m[x]]

has_option(m, section, option) ==
    section \in DOMAIN m /\ option \in DOMAIN m[section]

options(m, section) == DOMAIN m[section]

remove_option(m, section, option) ==
    [m EXCEPT ![section] =
        [o \in DOMAIN m[section] \ {option} |-> m[section][o]]]

Raised(status) == [status |-> status, value |-> ""]
Returned(value) == [status |-> "ok", value |-> value]

\* ConfigParser.get(section, option) called with the positional arguments
\* args: both are required
cp_get(m, args) ==
    IF Len(args) < 2 THEN Raised("TypeError")
    ELSE IF ~has_section(m, args[1]) THEN Raised("NoSectionError")
    ELSE IF args[2] \notin DOMAIN m[args[1]] THEN Raised("NoOptionError")
    ELSE Returned(m[args[1]][args[2]])

\* the exception ConfigParser.set(section, option, value) raises, or "ok";
\* it stores in memory and never writes the file
cp_set_status(m, section) ==
    IF has_section(m, section) THEN "ok" ELSE "NoSectionError"

cp_set(m, section, option, value) ==
    [m EXCEPT ![section] = (option :> value) @@ m[section]]

\* str.lower() on the texts the model stores
lower(text) ==
    CASE text = "True" -> "true"
      [] text = "False" -> "false"
      [] OTHER -> text

\* ConfigParser.BOOLEAN_STATES
BOOLEAN_STATES ==
    [x \in {"1", "yes", "true", "on", "0", "no", "false", "off"} |->
        x \in {"1", "yes", "true", "on"}]

\* ConfigParser.getboolean on a stored text
getboolean(text) ==
    IF lower(text) \in DOMAIN BOOLEAN_STATES
    THEN Returned(BOOLEAN_STATES[lower(text)])
    ELSE Raised("ValueError")

\* the stored texts int() accepts, with their values
IntTexts == ("0" :> 0) @@ ("1" :> 1) @@ ("7" :> 7) @@ ("640" :> 640)

\* ConfigParser.getint on a stored text
getint(text) ==
    IF text \in DOMAIN IntTexts
    THEN Returned(IntTexts[text])
    ELSE Raised("ValueError")

-----------------------------------------------------------------------------
(* Options.py: module constants *)

\* the keys of defaults on a posix system; boolean_keys = defaults.keys()
boolean_keys == <<"auto_hide", "check_beta", "check_online_updates",
                  "dark_mode", "debug", "delete_confirmation", "exit_done",
                  "remember_geometry", "shred", "units_iec",
                  "window_maximized", "kde_shred_menu_option">>

int_keys == <<"window_x", "window_y", "window_width", "window_height">>

APP_VERSION == "4.6.1"

-----------------------------------------------------------------------------
(* Options.py: path_to_option, Update_And_Write, __purge, is_corrupt *)

\* the state of the Options object and of its file:
\*   [mem, disk, dirExists, purged]

\* the paths os.path.lexists finds when __purge runs
ExistingPaths == {"/a"}

os_path_lexists(pathname) == pathname \in ExistingPaths

\* path_to_option on a posix system: os.path.normcase returns its argument,
\* no long-path expansion; pathname[1] is the second character
path_to_option(pathname) ==
    IF pathname[2] = ":"
    THEN <<pathname[1]>> \o SubSeq(pathname, 3, Len(pathname))
    ELSE pathname

\* Options.__purge on a posix system (no drive-letter colon to restore)
purge(m) ==
    IF ~has_section(m, "hashpath") THEN m
    ELSE [m EXCEPT !["hashpath"] =
            [o \in {x \in DOMAIN m["hashpath"] : os_path_lexists(x)} |->
                m["hashpath"][o]]]

\* GetConfig.Update_And_Write: the whole store replaces the file's content;
\* when the disk is full the write raises IOError(ENOSPC) and the file is
\* left as it was
super_Update_And_Write(m, d, full) ==
    IF full THEN d ELSE [exists |-> TRUE, content |-> m]

\* the ways super().Update_And_Write() can end
IoOutcomes == {"ok", "ENOSPC", "EIO"}

\* an except clause that swallows every IOError
Update_And_Write_status_SwallowAll(io) == "ok"

\* Options.Update_And_Write: what the caller sees.  IOError with errno
\* ENOSPC is caught and logged, any other IOError is raised again
Update_And_Write_status(io) ==
    IF io = "ok" THEN "ok"
    ELSE IF io = "ENOSPC" THEN "ok"
    ELSE "IOError"

\* an Update_And_Write that purges whatever the purged flag says
Update_And_Write_PurgingAgain(st, full) ==
    LET m1 == purge(st.mem)
    IN  [mem |-> m1,
         disk |-> super_Update_And_Write(m1, st.disk, full),
         dirExists |-> TRUE,
         purged |-> TRUE]

\* Options.Update_And_Write: the state it leaves; full means that the write
\* raised.  ENOSPC is caught and logged
Update_And_Write(st, full) ==
    LET m1 == IF ~st.purged THEN purge(st.mem) ELSE st.mem
    IN  [mem |-> m1,
         disk |-> super_Update_And_Write(m1, st.disk, full),
         dirExists |-> TRUE,
         purged |-> TRUE]

RECURSIVE BooleanLoop(_, _)
\* for boolean_key in boolean_keys: ... except ValueError: return True
BooleanLoop(m, keys) ==
    IF keys = <<>> THEN FALSE
    ELSE IF /\ has_option(m, "bleachbit", Head(keys))
            /\ getboolean(m["bleachbit"][Head(keys)]).status = "ValueError"
         THEN TRUE
         ELSE BooleanLoop(m, Tail(keys))

RECURSIVE IntLoop(_, _)
\* for int_key in int_keys: ... except ValueError: return True
IntLoop(m, keys) ==
    IF keys = <<>> THEN FALSE
    ELSE IF /\ has_option(m, "bleachbit", Head(keys))
            /\ getint(m["bleachbit"][Head(keys)]).status = "ValueError"
         THEN TRUE
         ELSE IntLoop(m, Tail(keys))

\* a self-check that stops after the boolean keys
is_corrupt_BooleanOnly(m) == BooleanLoop(m, boolean_keys)

\* Options.is_corrupt
is_corrupt(m) ==
    IF BooleanLoop(m, boolean_keys) THEN TRUE
    ELSE IF IntLoop(m, int_keys) THEN TRUE
    ELSE FALSE

-----------------------------------------------------------------------------
(* Options.py: structured setters and getters *)

DigitChars == <<"0", "1", "2", "3", "4", "5", "6", "7", "8", "9">>
LetterChars == <<"a","b","c","d","e","f","g","h","i","j","k","l","m",
                 "n","o","p","q","r","s","t","u","v","w","x","y","z">>

RECURSIVE str(_)
\* str(counter) for a natural number, as a tuple of characters
str(n) ==
    IF n < 10 THEN <<DigitChars[n + 1]>>
    ELSE str(n \div 10) \o <<DigitChars[(n % 10) + 1]>>

\* the code point of a character of an option key
ord(c) ==
    IF \E i \in 1..10 : DigitChars[i] = c
    THEN 47 + (CHOOSE i \in 1..10 : DigitChars[i] = c)
    ELSE IF c = "_" THEN 95
    ELSE 96 + (CHOOSE i \in 1..26 : LetterChars[i] = c)

RECURSIVE StringLess(_, _)
\* a < b for Python strings: lexicographic by code point
StringLess(a, b) ==
    IF b = <<>> THEN FALSE
    ELSE IF a = <<>> THEN TRUE
    ELSE IF Head(a) # Head(b) THEN ord(Head(a)) < ord(Head(b))
    ELSE StringLess(Tail(a), Tail(b))

RECURSIVE sorted(_)
\* sorted() of a set of option keys
sorted(S) ==
    IF S = {} THEN <<>>
    ELSE LET least == CHOOSE x \in S : \A y \in S \ {x} : StringLess(x, y)
         IN  <<least>> \o sorted(S \ {least})

RECURSIVE SetEach(_, _, _, _)
\* for counter, value in enumerate(values): self.set(section, str(counter), value)
SetEach(m, section, values, counter) ==
    IF values = <<>> THEN m
    ELSE SetEach(cp_set(m, section, str(counter), Head(values)),
                 section, Tail(values), counter + 1)

\* Options.set_list
set_list(st, key, values, full) ==
    LET section == "list/" \o key
        m1 == IF has_section(st.mem, section)
              THEN remove_section(st.mem, section) ELSE st.mem
        m2 == add_section(m1, section)
        m3 == SetEach(m2, section, values, 0)
    IN  Update_And_Write([st EXCEPT !.mem = m3], full)

\* Options.get_list
get_list(m, option) ==
    LET section == "list/" \o option
        keys == IF has_section(m, section)
                THEN sorted(options(m, section)) ELSE <<>>
    IN  IF ~has_section(m, section) THEN [status |-> "None", value |-> <<>>]
        ELSE Returned([i \in 1..Len(keys) |-> m[section][keys[i]]])

RECURSIVE SetKind(_, _, _, _, _)
\* for counter in range(len(values[kind])): the two self.set calls
SetKind(m, section, kind, items, counter) ==
    IF counter > Len(items) - 1 THEN m
    ELSE LET a == cp_set(m, section, str(counter) \o <<"_","t","y","p","e">>,
                         kind)
             b == cp_set(a, section, str(counter) \o <<"_","p","a","t","h">>,
                         items[counter + 1])
         IN  SetKind(b, section, kind, items, counter + 1)

RECURSIVE SetKinds(_, _, _)
\* for kind in values: values is the dict as the sequence of its items
SetKinds(m, section, values) ==
    IF values = <<>> THEN m
    ELSE SetKinds(SetKind(m, section, Head(values).kind, Head(values).items, 0),
                  section, Tail(values))

\* the whitelist_paths and custom_paths setters (same body, other section)
set_paths(st, section, values, full) ==
    LET m1 == IF has_section(st.mem, section)
              THEN remove_section(st.mem, section) ELSE st.mem
        m2 == add_section(m1, section)
        m3 == SetKinds(m2, section, values)
    IN  Update_And_Write([st EXCEPT !.mem = m3], full)

\* str.find('_'): the 0-based index of the first '_', or -1
find_(option) ==
    IF \E i \in 1..Len(option) : option[i] = "_"
    THEN (CHOOSE i \in 1..Len(option) :
            option[i] = "_" /\ \A j \in 1..(i - 1) : option[j] # "_") - 1
    ELSE -1

\* myoptions: option[0:pos] of every sorted option that contains '_'
myoptions(m, section) ==
    LET keys == sorted(options(m, section))
    IN  {SubSeq(keys[i], 1, find_(keys[i])) :
            i \in {j \in 1..Len(keys) : find_(keys[j]) # -1}}

RECURSIVE AppendEach_Dropping(_, _, _, _)
\* a loop that leaves out an entry whose type the dict has no key for
AppendEach_Dropping(m, section, todo, values) ==
    IF todo = <<>> THEN Returned(values)
    ELSE LET p_type == cp_get(m, <<section, Head(todo) \o <<"_","t","y","p","e">> >>)
             p_path == cp_get(m, <<section, Head(todo) \o <<"_","p","a","t","h">> >>)
         IN  IF p_type.status # "ok" THEN Raised(p_type.status)
             ELSE IF p_path.status # "ok" THEN Raised(p_path.status)
             ELSE LET key == p_type.value \o "s"
                  IN  IF key \notin DOMAIN values
                      THEN AppendEach_Dropping(m, section, Tail(todo), values)
                      ELSE AppendEach_Dropping(m, section, Tail(todo),
                              [values EXCEPT ![key] = Append(@, p_path.value)])

RECURSIVE AppendEach(_, _, _, _)
\* the loop over set(myoptions), visited in the order todo;
\* values[f"{p_type}s"] raises KeyError for a key the dict does not have
AppendEach(m, section, todo, values) ==
    IF todo = <<>> THEN Returned(values)
    ELSE LET p_type == cp_get(m, <<section, Head(todo) \o <<"_","t","y","p","e">> >>)
             p_path == cp_get(m, <<section, Head(todo) \o <<"_","p","a","t","h">> >>)
         IN  IF p_type.status # "ok" THEN Raised(p_type.status)
             ELSE IF p_path.status # "ok" THEN Raised(p_path.status)
             ELSE LET key == p_type.value \o "s"
                  IN  IF key \notin DOMAIN values THEN Raised("KeyError")
                      ELSE AppendEach(m, section, Tail(todo),
                              [values EXCEPT ![key] = Append(@, p_path.value)])

EmptyDict == [k \in {} |-> <<>>]

\* the orders in which a set can be iterated
Orders(S) ==
    {o \in [1..Cardinality(S) -> S] : \A i, j \in DOMAIN o : i # j => o[i] # o[j]}

\* Options.get_paths, iterating set(myoptions) in the order todo
get_paths(m, section, todo) ==
    IF ~has_section(m, section) THEN Returned(EmptyDict)
    ELSE AppendEach(m, section, todo,
                    ("files" :> <<>>) @@ ("folders" :> <<>>))

\* Options.get_language
get_language(m, langid) ==
    IF ~has_option(m, "preserve_languages", langid) THEN Returned(FALSE)
    ELSE getboolean(m["preserve_languages"][langid])

\* Options.get_languages: None without the section, else its option names
get_languages(m) ==
    IF ~has_section(m, "preserve_languages")
    THEN [isNone |-> TRUE, items |-> {}]
    ELSE [isNone |-> FALSE, items |-> options(m, "preserve_languages")]

\* Options.set_language; str(value) is 'True' or 'False'
set_language(st, langid, value, full) ==
    LET m1 == IF has_section(st.mem, "preserve_languages") THEN st.mem
              ELSE add_section(st.mem, "preserve_languages")
        m2 == IF has_option(m1, "preserve_languages", langid) /\ ~value
              THEN remove_option(m1, "preserve_languages", langid)
              ELSE cp_set(m1, "preserve_languages", langid,
                          IF value THEN "True" ELSE "False")
    IN  Update_And_Write([st EXCEPT !.mem = m2], full)

\* Options.set_tree; hasChild is "child is not None"
set_tree(st, parent, hasChild, child, value, full) ==
    LET m1 == IF has_section(st.mem, "tree") THEN st.mem
              ELSE add_section(st.mem, "tree")
        option == IF hasChild THEN parent \o "." \o child ELSE parent
        m2 == IF has_option(m1, "tree", option) /\ ~value
              THEN remove_option(m1, "tree", option)
              ELSE cp_set(m1, "tree", option, IF value THEN "True" ELSE "False")
    IN  Update_And_Write([st EXCEPT !.mem = m2], full)

\* a toggle that stores False when it cannot read the key
toggle_Defaulting(st, key) ==
    LET got == cp_get(st.mem, <<key>>)
    IN  [st |-> [st EXCEPT !.mem = cp_set(st.mem, "bleachbit", key, "False")],
         status |-> IF got.status # "ok" THEN got.status ELSE "TypeError"]

\* Options.toggle: self.set(key, not self.get(key)).  The argument is
\* evaluated first: get is the inherited ConfigParser.get, called with the
\* key alone.  Had it returned, set would receive a bool as option name and
\* raise TypeError as well.
toggle(st, key) ==
    LET got == cp_get(st.mem, <<key>>)
    IN  IF got.status # "ok"
        THEN [st |-> st, status |-> got.status]
        ELSE [st |-> st, status |-> "TypeError"]

\* Options.set_hashpath: self.set(path_to_option(pathname), hashvalue,
\* 'hashpath') binds section := the key, option := the hash, value := 'hashpath'
set_hashpath(st, pathname, hashvalue) ==
    LET section == Join(path_to_option(pathname))
        status == cp_set_status(st.mem, section)
    IN  IF status # "ok" THEN [st |-> st, status |-> status]
        ELSE [st |-> [st EXCEPT !.mem = cp_set(st.mem, section, hashvalue,
                                                "hashpath")],
              status |-> "ok"]

\* Options.get_hashpath: self.get(path_to_option(pathname), 'hashpath') binds
\* section := the key, option := 'hashpath'
get_hashpath(m, pathname) ==
    cp_get(m, <<Join(path_to_option(pathname)), "hashpath">>)

\* Options.init_configuration (module level): the store object is untouched
init_configuration(st) ==
    IF ~st.dirExists THEN [st EXCEPT !.dirExists = TRUE]
    ELSE IF st.disk.exists
         THEN [st EXCEPT !.disk = [exists |-> FALSE, content |-> EmptySection]]
         ELSE st

-----------------------------------------------------------------------------
(* Options.py: construction (Options.__init__ and restore) *)

\* bleachbit.user_locale
user_locale == <<"e","n","_","U","S">>

\* FileUtilities.guess_overwrite_paths()
guess_overwrite_paths == <<"/h">>

\* lang = user_locale up to the first '_'
restore_lang ==
    Join(IF find_(user_locale) # -1
         THEN SubSeq(user_locale, 1, find_(user_locale))
         ELSE user_locale)

RECURSIVE PreserveEach(_, _)
\* for _lang in set([lang, 'en']): self.set_language(_lang, True)
PreserveEach(st, langs) ==
    IF langs = {} THEN st
    ELSE LET l == CHOOSE x \in langs : TRUE
         IN  PreserveEach(set_language(st, l, TRUE, FALSE), langs \ {l})

\* Options.restore, for a store without the option 'version': with it the
\* test self.get('version') would call ConfigParser.get with one argument
restore(st) ==
    LET m1 == IF has_section(st.mem, "bleachbit") THEN st.mem
              ELSE add_section(st.mem, "bleachbit")
        m2 == IF has_section(m1, "hashpath") THEN m1
              ELSE add_section(m1, "hashpath")
        s2 == [st EXCEPT !.mem = m2]
        s3 == IF has_section(m2, "list/shred_drives") THEN s2
              ELSE set_list(s2, "shred_drives", guess_overwrite_paths, FALSE)
        s4 == IF has_section(s3.mem, "preserve_languages") THEN s3
              ELSE PreserveEach(s3, {restore_lang, "en"})
        m5 == cp_set(s4.mem, "bleachbit", "first_start", "true")
        m6 == cp_set(m5, "bleachbit", "version", APP_VERSION)
    IN  [s4 EXCEPT !.mem = m6]

NoFile == [exists |-> FALSE, content |-> EmptySection]

\* a file an earlier run left: every section, two remembered hashes
EarlierFile ==
    [exists |-> TRUE,
     content |-> ("bleachbit" :> EmptySection)
              @@ ("hashpath" :> (("/gone" :> "h1") @@ ("/a" :> "h2")))
              @@ ("list/shred_drives" :> (str(0) :> "/h"))
              @@ ("preserve_languages" :> ("en" :> "True"))]

\* Options(): GetConfig.__init__ loads the file if there is one, then restore
Construct(file) ==
    restore([mem |-> file.content, disk |-> file,
             dirExists |-> file.exists, purged |-> FALSE])

\* no argument recorded
NoArg == <<>>

St == [mem |-> mem, disk |-> disk, dirExists |-> dirExists, purged |-> purged]

Becomes(st) ==
    /\ mem' = st.mem
    /\ disk' = st.disk
    /\ dirExists' = st.dirExists
    /\ purged' = st.purged

\* the store after construction, with the argument the next operation is
\* applied to and the command line's debugging switch
\* ChaffDialog as constructed: no thread, nothing queued in the main loop
NoThread ==
    [pc |-> "none", file_count |-> 0, inspiration |-> 0,
     delete_when_finished |-> FALSE, i |-> 0, bound |-> FALSE]

ChaffIdle ==
    /\ make_button = TRUE
    /\ progressbar = [visible |-> FALSE, text |-> "", fraction |-> <<0, 1>>]
    /\ thread = NoThread
    /\ idle = <<>>
    /\ sent = <<>>
    /\ handled = <<>>

StoreStartsWith(files, args, clis) ==
    /\ \E file \in files : /\ mem = Construct(file).mem
                           /\ disk = Construct(file).disk
                           /\ dirExists = Construct(file).dirExists
                           /\ purged = Construct(file).purged
    /\ lastOp = [name |-> "init", key |-> ""]
    /\ result = Returned("")
    /\ lastFull = FALSE
    /\ lastIo = "none"
    /\ arg \in args
    /\ debugCli \in clis
    /\ ChaffIdle

StoreStarts(files) == StoreStartsWith(files, {NoArg}, {FALSE})

LocaleStarts(trees, filesystems) ==
    /\ paths \in trees
    /\ fs \in filesystems
    /\ locales_to_keep = [isNone |-> TRUE, items |-> {}]
    /\ discovered = <<>>
    /\ cursor = 1
    /\ yielded = <<>>
    /\ outcome = "idle"
    /\ listed = <<>>

-----------------------------------------------------------------------------
(* Operations on the store *)

\* the inherited ConfigParser.set(section, option, value)
Set(section, option, value) ==
    /\ lastOp' = [name |-> "set", key |-> option]
    /\ result' = Raised(cp_set_status(mem, section))
    /\ mem' = IF cp_set_status(mem, section) = "ok"
              THEN cp_set(mem, section, option, value) ELSE mem
    /\ lastFull' = FALSE
    /\ lastIo' = "none"
    /\ arg' = NoArg
    /\ UNCHANGED <<debugCli, chaffVars>>
    /\ UNCHANGED <<disk, dirExists, purged>>
    /\ UNCHANGED localeVars

Toggle(key) ==
    /\ lastOp' = [name |-> "toggle", key |-> key]
    /\ result' = Raised(toggle(St, key).status)
    /\ Becomes(toggle(St, key).st)
    /\ lastFull' = FALSE
    /\ lastIo' = "none"
    /\ arg' = NoArg
    /\ UNCHANGED <<debugCli, chaffVars>>
    /\ UNCHANGED localeVars

SetHashpath(pathname, hashvalue) ==
    /\ lastOp' = [name |-> "set_hashpath", key |-> Join(pathname)]
    /\ result' = Raised(set_hashpath(St, pathname, hashvalue).status)
    /\ Becomes(set_hashpath(St, pathname, hashvalue).st)
    /\ lastFull' = FALSE
    /\ lastIo' = "none"
    /\ arg' = [pathname |-> pathname, hashvalue |-> hashvalue]
    /\ UNCHANGED <<debugCli, chaffVars>>
    /\ UNCHANGED localeVars

GetHashpath(pathname) ==
    /\ lastOp' = [name |-> "get_hashpath", key |-> Join(pathname)]
    /\ result' = get_hashpath(mem, pathname)
    /\ lastFull' = FALSE
    /\ lastIo' = "none"
    /\ arg' = NoArg
    /\ UNCHANGED <<mem, disk, dirExists, purged, debugCli, chaffVars>>
    /\ UNCHANGED localeVars

SetList(key, values, full) ==
    /\ lastOp' = [name |-> "set_list", key |-> key]
    /\ result' = Returned(values)
    /\ Becomes(set_list(St, key, values, full))
    /\ lastFull' = full
    /\ lastIo' = IF full THEN "ENOSPC" ELSE "ok"
    /\ arg' = NoArg
    /\ UNCHANGED <<debugCli, chaffVars>>
    /\ UNCHANGED localeVars

GetList(key) ==
    /\ lastOp' = [name |-> "get_list", key |-> key]
    /\ result' = get_list(mem, key)
    /\ lastFull' = FALSE
    /\ lastIo' = "none"
    /\ arg' = NoArg
    /\ UNCHANGED <<debugCli, chaffVars>>
    /\ UNCHANGED <<mem, disk, dirExists, purged>>
    /\ UNCHANGED localeVars

SetPaths(section, values, full) ==
    /\ lastOp' = [name |-> "set_paths", key |-> section]
    /\ result' = Returned(values)
    /\ Becomes(set_paths(St, section, values, full))
    /\ lastFull' = full
    /\ lastIo' = IF full THEN "ENOSPC" ELSE "ok"
    /\ arg' = NoArg
    /\ UNCHANGED <<debugCli, chaffVars>>
    /\ UNCHANGED localeVars

GetPaths(section) ==
    /\ lastOp' = [name |-> "get_paths", key |-> section]
    /\ \E todo \in Orders(IF has_section(mem, section)
                          THEN myoptions(mem, section) ELSE {}) :
            result' = get_paths(mem, section, todo)
    /\ lastFull' = FALSE
    /\ lastIo' = "none"
    /\ arg' = NoArg
    /\ UNCHANGED <<debugCli, chaffVars>>
    /\ UNCHANGED <<mem, disk, dirExists, purged>>
    /\ UNCHANGED localeVars

SetLanguage(langid, value, full) ==
    /\ lastOp' = [name |-> "set_language", key |-> langid]
    /\ result' = Returned("")
    /\ Becomes(set_language(St, langid, value, full))
    /\ lastFull' = full
    /\ lastIo' = IF full THEN "ENOSPC" ELSE "ok"
    /\ arg' = NoArg
    /\ UNCHANGED <<debugCli, chaffVars>>
    /\ UNCHANGED localeVars

SetTree(parent, hasChild, child, value, io) ==
    /\ lastOp' = [name |-> "set_tree", key |-> parent]
    /\ result' = Raised(Update_And_Write_status(io))
    /\ Becomes(set_tree(St, parent, hasChild, child, value, io # "ok"))
    /\ lastFull' = (io = "ENOSPC")
    /\ lastIo' = io
    /\ arg' = [option |-> IF hasChild THEN parent \o "." \o child ELSE parent,
               value |-> value]
    /\ UNCHANGED <<debugCli, chaffVars>>
    /\ UNCHANGED localeVars

\* a self-check that drops the options it cannot coerce
IsCorrupt_Repairing ==
    /\ lastOp' = [name |-> "is_corrupt", key |-> ""]
    /\ result' = Returned(is_corrupt(mem))
    /\ lastFull' = FALSE
    /\ lastIo' = "none"
    /\ arg' = NoArg
    /\ UNCHANGED <<debugCli, chaffVars>>
    /\ mem' = [mem EXCEPT !["bleachbit"] =
                [o \in {x \in DOMAIN mem["bleachbit"] :
                            ~is_corrupt([mem EXCEPT !["bleachbit"] =
                                            (x :> mem["bleachbit"][x])])} |->
                    mem["bleachbit"][o]]]
    /\ UNCHANGED <<disk, dirExists, purged>>
    /\ UNCHANGED localeVars

IsCorrupt ==
    /\ lastOp' = [name |-> "is_corrupt", key |-> ""]
    /\ result' = Returned(is_corrupt(mem))
    /\ lastFull' = FALSE
    /\ lastIo' = "none"
    /\ arg' = NoArg
    /\ UNCHANGED <<debugCli, chaffVars>>
    /\ UNCHANGED <<mem, disk, dirExists, purged>>
    /\ UNCHANGED localeVars

InitConfiguration ==
    /\ lastOp' = [name |-> "init_configuration", key |-> ""]
    /\ result' = Returned("")
    /\ Becomes(init_configuration(St))
    /\ lastFull' = FALSE
    /\ lastIo' = "none"
    /\ arg' = NoArg
    /\ UNCHANGED <<debugCli, chaffVars>>
    /\ UNCHANGED localeVars

-----------------------------------------------------------------------------
(* Specifications *)

\* ---- the configuration store driven by its callers ----

SetInputs == {<<"bleachbit", "shred", "True">>,
              <<"bleachbit", "shred", "banana">>,
              <<"bleachbit", "window_x", "7">>,
              <<"bleachbit", "window_x", "banana">>}

ToggleKeys == {"shred", "debug"}

HashPaths == {<<"/","a">>}

Languages == {"fr"}

Init ==
    /\ StoreStarts({NoFile, EarlierFile})
    /\ LocaleStarts({CHOOSE t \in TreeChoices : ~t.children[1].isRegex},
                    {CHOOSE f \in FsChoices : f.dirs = {<<>>}})

\* the write can fail when set_tree writes
Next ==
    \/ \E i \in SetInputs : Set(i[1], i[2], i[3])
    \/ \E key \in ToggleKeys : Toggle(key)
    \/ \E pathname \in HashPaths : SetHashpath(pathname, "h1")
    \/ \E pathname \in HashPaths : GetHashpath(pathname)
    \/ SetList("shred_drives", <<"/a">>, FALSE)
    \/ SetPaths("whitelist/paths",
                <<[kind |-> "files", items |-> <<"/a">>],
                  [kind |-> "folders", items |-> <<>>]>>, FALSE)
    \/ \E langid \in Languages, value \in BOOLEAN :
          SetLanguage(langid, value, FALSE)
    \/ \E value \in BOOLEAN, io \in IoOutcomes :
          SetTree("system", TRUE, "cache", value, io)
    \/ IsCorrupt
    \/ InitConfiguration

Spec == Init /\ [][Next]_vars

\* ---- the locale resolver consumed to the end ----

InitLocale ==
    /\ StoreStarts({NoFile})
    /\ LocaleStarts(TreeChoices, FsChoices)

NextLocale ==
    \/ \E keep \in KeepSets : StartTraversal(keep)
    \/ NextItem
    \/ Exhausted

SpecLocale == InitLocale /\ [][NextLocale]_vars

\* ---- structured lists written and read back ----

\* the i-th distinct path
Item(i) == "/d" \o Join(str(i))

\* lists of n distinct paths, ascending and descending
ListInputs ==
    UNION {{[i \in 1..n |-> Item(i)], [i \in 1..n |-> Item(n + 1 - i)]} :
            n \in 0..MaxListLen}

FileLists == {[i \in 1..n |-> "/f" \o Join(str(i))] : n \in 0..MaxPathsLen}
FolderLists == {[i \in 1..n |-> "/g" \o Join(str(i))] : n \in 0..MaxPathsLen}

\* {'files': F, 'folders': D} in both key orders
PathsInputs ==
    UNION {{<<[kind |-> "files", items |-> F], [kind |-> "folders", items |-> D]>>,
            <<[kind |-> "folders", items |-> D], [kind |-> "files", items |-> F]>>} :
            F \in FileLists, D \in FolderLists}

PathsSections == {"whitelist/paths", "custom/paths"}

InitList ==
    /\ StoreStarts({NoFile})
    /\ LocaleStarts({CHOOSE t \in TreeChoices : ~t.children[1].isRegex},
                    {CHOOSE f \in FsChoices : f.dirs = {<<>>}})

NextList ==
    \/ \E values \in ListInputs : SetList("shred_drives", values, FALSE)
    \/ GetList("shred_drives")
    \/ \E section \in PathsSections, values \in PathsInputs :
          SetPaths(section, values, FALSE)
    \/ \E section \in PathsSections : GetPaths(section)

SpecList == InitList /\ [][NextList]_vars

-----------------------------------------------------------------------------
(* Properties of the locale resolver, checked under SpecLocale *)

Specific(item) == item.locale \o item.specifier

Items == {discovered[i] : i \in 1..Len(discovered)}
YieldedSet == {yielded[i] : i \in 1..Len(yielded)}
Tags == {Specific(item) : item \in Items}
PathsOf(tags) == {item.path : item \in {x \in Items : Specific(x) \in tags}}
KeepIsEmpty == locales_to_keep.isNone \/ locales_to_keep.items = {}

\* C1: localization_paths never yields the path of a discovered item whose
\* fully qualified tag (locale + specifier) is a member of the keep set.
C1_ExplicitKeepWins ==
    \A item \in Items :
        Specific(item) \in locales_to_keep.items => item.path \notin YieldedSet

\* C1 witness: a finished traversal that met a kept specific tag whose base
\* language is a known locale outside the keep set, and that yielded paths.
C1_Witness ==
    /\ outcome = "ok"
    /\ yielded # <<>>
    /\ \E item \in Items :
        /\ item.specifier # ""
        /\ Specific(item) \in locales_to_keep.items
        /\ item.locale \in native_locale_names \ locales_to_keep.items

\* C2 as stated: with a base language in the keep set no item of that base
\* language is yielded, and keep set {en} with discovered tags
\* {en, en_GB, fr, de_DE} yields exactly the fr and de_DE paths.
C2_BaseKeepProtectsAll ==
    outcome = "ok" =>
        /\ \A item \in Items :
            item.locale \in locales_to_keep.items => item.path \notin YieldedSet
        /\ (locales_to_keep.items = {"en"}
              /\ Tags = {"en", "en_GB", "fr", "de_DE"})
            => YieldedSet = PathsOf({"fr", "de_DE"})

\* C2 amended: an item whose base language is in the keep set is yielded
\* exactly when its fully qualified tag is itself a key of
\* native_locale_names that is absent from the keep set; keep set {en} with
\* discovered tags {en, en_GB, fr, de_DE} yields exactly the en_GB, fr and
\* de_DE paths.
C2_BaseKeepUnlessKnownSpecific ==
    outcome = "ok" =>
        /\ \A item \in Items :
            item.locale \in locales_to_keep.items =>
                (item.path \in YieldedSet <=>
                    Specific(item) \in native_locale_names \ locales_to_keep.items)
        /\ (locales_to_keep.items = {"en"}
              /\ Tags = {"en", "en_GB", "fr", "de_DE"})
            => YieldedSet = PathsOf({"en_GB", "fr", "de_DE"})

\* C2 witness: the traversal of the example has finished.
C2_Witness ==
    /\ outcome = "ok"
    /\ locales_to_keep.items = {"en"}
    /\ Tags = {"en", "en_GB", "fr", "de_DE"}
    /\ Cardinality(YieldedSet) = 3

\* C3: with an empty keep set (empty collection or None) localization_paths
\* raises and yields no path, whatever the rule tree and filesystem hold.
C3_EmptyKeepRaises ==
    (outcome # "idle" /\ KeepIsEmpty) => (outcome = "raise" /\ yielded = <<>>)

\* C3 witness: the resolver raised on an empty collection although the
\* scanned directory holds an entry of a known locale.
C3_Witness ==
    /\ outcome = "raise"
    /\ ~locales_to_keep.isNone
    /\ <<loc>> \in fs.dirs
    /\ \E i \in 1..Len(fs.list[<<loc>>]) : fs.list[<<loc>>][i] = <<"f","r">>

\* C4 as stated: every discovered item whose base locale and fully qualified
\* tag are both absent from the keep set is yielded, whatever the locale code.
C4_AbsentMeansYielded ==
    outcome = "ok" =>
        \A item \in Items :
            (item.locale \notin locales_to_keep.items
                /\ Specific(item) \notin locales_to_keep.items)
            => item.path \in YieldedSet

\* C4 amended: every discovered item whose base locale and fully qualified
\* tag are both absent from the keep set, and whose base locale or fully
\* qualified tag is a key of native_locale_names, is yielded.
C4_AbsentAndKnownMeansYielded ==
    outcome = "ok" =>
        \A item \in Items :
            (/\ item.locale \notin locales_to_keep.items
             /\ Specific(item) \notin locales_to_keep.items
             /\ (item.locale \in native_locale_names
                    \/ Specific(item) \in native_locale_names))
            => item.path \in YieldedSet

\* C4 witness: a finished traversal yielded an item known by its base
\* language only and left an item of an unknown locale code alone.
C4_Witness ==
    /\ outcome = "ok"
    /\ \E item \in Items :
        /\ Specific(item) \notin native_locale_names
        /\ item.locale \in native_locale_names
        /\ item.path \in YieldedSet
    /\ \E item \in Items :
        /\ item.locale \notin native_locale_names
        /\ item.locale \notin locales_to_keep.items
        /\ item.path \notin YieldedSet

-----------------------------------------------------------------------------
(* Properties of the configuration store *)

MutatingOps == {"set", "toggle", "set_hashpath", "set_list", "set_paths",
                "set_language", "set_tree"}

\* C5: once a mutating operation has returned and the disk was not full,
\* the file on disk holds exactly the sections, keys and values of the
\* in-memory store.
C5_WrittenThrough ==
    (lastOp.name \in MutatingOps /\ result.status = "ok" /\ ~lastFull)
        => (disk.exists /\ disk.content = mem)

ListSection == "list/shred_drives"

\* C6: get_list after set_list returns the same values in the same order,
\* and after set_list the section holds one option per value of the list
\* just written (nothing of an earlier, longer list). Checked under SpecList.
C6_ListRoundTrip ==
    [][/\ (lastOp.name = "set_list" /\ lastOp'.name = "get_list")
            => (result'.status = "ok" /\ result'.value = result.value)
       /\ lastOp'.name = "set_list"
            => (/\ Cardinality(DOMAIN mem'[ListSection]) = Len(result'.value)
                /\ \A o \in DOMAIN mem'[ListSection] :
                    \E i \in 1..Len(result'.value) :
                        mem'[ListSection][o] = result'.value[i])]_vars

SameElements(a, b) ==
    /\ Len(a) = Len(b)
    /\ {a[i] : i \in 1..Len(a)} = {b[i] : i \in 1..Len(b)}

\* C7: reading whitelist_paths / custom_paths right after assigning
\* {'files': F, 'folders': D} returns a structure with the same files and
\* the same folders, whatever the order of the dict keys.
\* Checked under SpecList.
C7_PathsRoundTrip ==
    [][(lastOp.name = "set_paths" /\ lastOp'.name = "get_paths"
            /\ lastOp'.key = lastOp.key)
        => /\ result'.status = "ok"
           /\ \A i \in 1..Len(result.value) :
                /\ result.value[i].kind \in DOMAIN result'.value
                /\ SameElements(result'.value[result.value[i].kind],
                                result.value[i].items)]_vars

\* the other keys of the store are as they were
OthersUnchanged(key) ==
    /\ DOMAIN mem' = DOMAIN mem
    /\ \A section \in DOMAIN mem \ {"bleachbit"} : mem'[section] = mem[section]
    /\ DOMAIN mem'["bleachbit"] = DOMAIN mem["bleachbit"]
    /\ \A o \in DOMAIN mem["bleachbit"] \ {key} :
            mem'["bleachbit"][o] = mem["bleachbit"][o]

\* C8: toggle(key) on a stored boolean value makes the key read as the
\* negation of its previous value and leaves every other key unchanged
\* (so that two calls restore the original value).
C8_ToggleNegates ==
    [][(/\ lastOp'.name = "toggle"
        /\ has_option(mem, "bleachbit", lastOp'.key)
        /\ getboolean(mem["bleachbit"][lastOp'.key]).status = "ok")
        => /\ result'.status = "ok"
           /\ has_option(mem', "bleachbit", lastOp'.key)
           /\ getboolean(mem'["bleachbit"][lastOp'.key]).status = "ok"
           /\ getboolean(mem'["bleachbit"][lastOp'.key]).value
                = ~getboolean(mem["bleachbit"][lastOp'.key]).value
           /\ OthersUnchanged(lastOp'.key)]_vars

Range(seq) == {seq[i] : i \in 1..Len(seq)}

\* allow-listed keys that are present with a text that does not coerce
BadBooleans ==
    {k \in Range(boolean_keys) :
        /\ has_option(mem, "bleachbit", k)
        /\ lower(mem["bleachbit"][k]) \notin DOMAIN BOOLEAN_STATES}
BadInts ==
    {k \in Range(int_keys) :
        /\ has_option(mem, "bleachbit", k)
        /\ mem["bleachbit"][k] \notin DOMAIN IntTexts}

\* C9: is_corrupt() returns False on a freshly initialized store, True
\* whenever a present boolean-allow-list key holds a text that is not a
\* boolean or a present integer-allow-list key a text that is not an
\* integer, and never True on account of absent keys.
C9_IsCorruptDetects ==
    lastOp.name = "is_corrupt" =>
        /\ mem = Construct(NoFile).mem => result.value = FALSE
        /\ BadBooleans # {} => result.value = TRUE
        /\ BadInts # {} => result.value = TRUE
        /\ (BadBooleans = {} /\ BadInts = {}) => result.value = FALSE

\* C9 witness: the self-check answered True for a store whose only
\* uncoercible text is that of an integer key.
C9_Witness ==
    /\ lastOp.name = "is_corrupt"
    /\ result.value = TRUE
    /\ BadBooleans = {}
    /\ has_option(mem, "bleachbit", "window_x")
    /\ mem["bleachbit"]["window_x"] = "banana"

\* C10: is_corrupt() leaves the in-memory store and the file on disk
\* exactly as they were, whether it returns True or False.
C10_IsCorruptReadOnly ==
    [][lastOp'.name = "is_corrupt"
        => (mem' = mem /\ disk' = disk /\ dirExists' = dirExists
            /\ purged' = purged)]_vars

\* C10 witness: the self-check answered True and the uncoercible boolean
\* text is still in the store.
C10_Witness ==
    /\ lastOp.name = "is_corrupt"
    /\ result.value = TRUE
    /\ has_option(mem, "bleachbit", "shred")
    /\ mem["bleachbit"]["shred"] = "banana"

\* C11: when the write fails with ENOSPC, Update_And_Write returns normally
\* and the in-memory store keeps the mutated value; when it fails with
\* another I/O error, the error reaches the caller.
C11_DiskFullSwallowed ==
    [][lastOp'.name = "set_tree" =>
        /\ lastIo' = "ENOSPC" =>
            /\ result'.status = "ok"
            /\ arg'.value =>
                /\ has_option(mem', "tree", arg'.option)
                /\ mem'["tree"][arg'.option] = "True"
            /\ (~arg'.value /\ has_option(mem, "tree", arg'.option)) =>
                ~has_option(mem', "tree", arg'.option)
        /\ lastIo' = "EIO" => result'.status = "IOError"]_vars

\* C11 witness: set_tree returned normally although the disk was full; its
\* value is in memory and not in the file.
C11_Witness ==
    /\ lastOp.name = "set_tree"
    /\ lastIo = "ENOSPC"
    /\ result.status = "ok"
    /\ has_option(mem, "tree", "system.cache")
    /\ ~(disk.exists /\ has_section(disk.content, "tree"))

-----------------------------------------------------------------------------
(* path_to_option as a function of paths *)

MaxPathLen == 3

PathChars == {"/", ":", "a", "A"}

\* the pathnames of two to MaxPathLen characters
Pathnames ==
    UNION {[1..n -> PathChars] : n \in 2..MaxPathLen}

\* Options.__purge on a posix system: the stored key is the pathname that is
\* looked up, no colon is put back
option_to_path(option) == option

\* path_to_option applied to the two pathnames drawn at the start
PathToOption ==
    /\ lastOp.name = "init"
    /\ lastOp' = [name |-> "path_to_option", key |-> Join(arg.p)]
    /\ result' = Returned([p |-> path_to_option(arg.p),
                           q |-> path_to_option(arg.q)])
    /\ UNCHANGED <<mem, disk, dirExists, purged, lastFull, lastIo, arg,
                   debugCli, chaffVars>>
    /\ UNCHANGED localeVars

InitPath ==
    /\ StoreStartsWith({NoFile}, [p : Pathnames, q : Pathnames], {FALSE})
    /\ LocaleStarts({CHOOSE t \in TreeChoices : ~t.children[1].isRegex},
                    {CHOOSE f \in FsChoices : f.dirs = {<<>>}})

NextPath == PathToOption

SpecPath == InitPath /\ [][NextPath]_vars

\* C12: path_to_option is a bijection: two different pathnames never get the
\* same key, and the inverse reconstruction applied to the key of a pathname
\* gives that pathname back.
C12_PathToOptionBijection ==
    lastOp.name = "path_to_option" =>
        /\ arg.p # arg.q => result.value.p # result.value.q
        /\ option_to_path(result.value.p) = arg.p

\* C13: get_hashpath(P) right after set_hashpath(P, h) returns h.
C13_HashpathRoundTrip ==
    [][(/\ lastOp.name = "set_hashpath"
        /\ lastOp'.name = "get_hashpath"
        /\ lastOp'.key = lastOp.key)
       => (result'.status = "ok" /\ result'.value = arg.hashvalue)]_vars

-----------------------------------------------------------------------------
(* Options.py: Options.Get over GetConfig.Get *)

\* the values Get returns, by Python type, each with its text
PyBool(b) == [type |-> "bool", val |-> IF b THEN "True" ELSE "False"]
PyInt(text) == [type |-> "int", val |-> text]
PyStr(text) == [type |-> "str", val |-> text]
PyNone == [type |-> "NoneType", val |-> "None"]

\* os.name of the system modelled
os_name == "posix"

\* the defaults table on a posix system
defaults ==
    [k \in {boolean_keys[i] : i \in DOMAIN boolean_keys} |->
        k \in {"auto_hide", "check_online_updates", "dark_mode",
               "delete_confirmation", "remember_geometry"}]

\* the texts read as True and as False: the usual words, and the 't' and 'f'
\* that Options.__init__ appends
yes_values == {"1", "yes", "true", "on", "t"}
no_values == {"0", "no", "false", "off", "f"}

\* what a read may do with a stored text that is not of the type asked for
Uncoercible == {Raised("ValueError"), Returned(PyNone)}

\* the stored text as the type asked for; the set of possible results
Coerce(text, type) ==
    IF type = "bool"
    THEN IF lower(text) \in yes_values THEN {Returned(PyBool(TRUE))}
         ELSE IF lower(text) \in no_values THEN {Returned(PyBool(FALSE))}
         ELSE Uncoercible
    ELSE IF type = "int"
    THEN IF text \in DOMAIN IntTexts THEN {Returned(PyInt(text))}
         ELSE Uncoercible
    ELSE {Returned(PyStr(text))}

\* GetConfig.Get(section, option, ..., noraise = True, type): the stored value
\* as the type asked for; the declared default of an absent key; an absent
\* key without a default is not read as a value
super_Get(m, section, option, type) ==
    IF has_option(m, section, option) THEN Coerce(m[section][option], type)
    ELSE IF option \in DOMAIN defaults
    THEN {Returned(PyBool(defaults[option]))}
    ELSE {Raised("NoOptionError"), Returned(PyNone)}

\* the convertTo parameter when the caller leaves it out
convertTo_default == "bool"

\* the type Options.Get passes on: int for int_keys, bool for boolean_keys,
\* otherwise convertTo
ConvType(option, convertTo) ==
    IF \E i \in DOMAIN int_keys : int_keys[i] = option THEN "int"
    ELSE IF \E i \in DOMAIN boolean_keys : boolean_keys[i] = option THEN "bool"
    ELSE convertTo

\* the option of section 'hashpath' is a pathname, and loses a colon in second
\* place; the other options are names
StripColon(section, option) ==
    IF section = "hashpath" THEN Join(path_to_option(option)) ELSE option

\* a Get whose override does not ask whether the command line enabled it
Options_Get_AlwaysOverride(m, cli, option, section, convertTo) ==
    IF os_name # "nt" /\ option = "update_winapp2"
    THEN {Returned(PyBool(FALSE))}
    ELSE IF section = "bleachbit" /\ option = "debug"
    THEN {Returned(PyBool(TRUE))}
    ELSE super_Get(m, section, StripColon(section, option),
                   ConvType(StripColon(section, option), convertTo))

\* a Get that passes option and section to the base class in the wrong order
Options_Get_Swapped(m, cli, option, section, convertTo) ==
    IF os_name # "nt" /\ option = "update_winapp2"
    THEN {Returned(PyBool(FALSE))}
    ELSE IF section = "bleachbit" /\ option = "debug" /\ cli
    THEN {Returned(PyBool(TRUE))}
    ELSE super_Get(m, StripColon(section, option), section,
                   ConvType(StripColon(section, option), convertTo))

\* Options.Get(option, section, convertTo = ...); cli is what
\* is_debugging_enabled_via_cli() answers.  The set of possible results
Options_Get(m, cli, option, section, convertTo) ==
    IF os_name # "nt" /\ option = "update_winapp2"
    THEN {Returned(PyBool(FALSE))}
    ELSE IF section = "bleachbit" /\ option = "debug" /\ cli
    THEN {Returned(PyBool(TRUE))}
    ELSE super_Get(m, section, StripColon(section, option),
                   ConvType(StripColon(section, option), convertTo))

\* options.Get(option, section[, convertTo]); asked is "omitted" when the
\* caller gives no convertTo
Get(option, section, asked) ==
    /\ lastOp' = [name |-> "Get",
                  key |-> IF section = "hashpath" THEN Join(option) ELSE option]
    /\ result' \in Options_Get(mem, debugCli, option, section,
                               IF asked = "omitted" THEN convertTo_default
                               ELSE asked)
    /\ arg' = [option |-> option, section |-> section, asked |-> asked]
    /\ lastFull' = FALSE
    /\ lastIo' = "none"
    /\ UNCHANGED <<mem, disk, dirExists, purged, debugCli, chaffVars>>
    /\ UNCHANGED localeVars

\* ---- typed reads ----

GetSetInputs == {<<"bleachbit", "debug", "False">>,
                 <<"bleachbit", "debug", "t">>,
                 <<"bleachbit", "shred", "True">>,
                 <<"bleachbit", "shred", "banana">>,
                 <<"bleachbit", "window_x", "7">>,
                 <<"bleachbit", "update_winapp2", "True">>}

GetInputs == {<<"debug", "bleachbit">>, <<"shred", "bleachbit">>,
              <<"auto_hide", "bleachbit">>, <<"window_x", "bleachbit">>,
              <<"first_start", "bleachbit">>, <<"version", "bleachbit">>,
              <<"update_winapp2", "bleachbit">>,
              <<<<"/", ":", "a">>, "hashpath">>}

AskedTypes == {"omitted", "str"}

InitGet ==
    /\ StoreStartsWith({NoFile, EarlierFile}, {NoArg}, BOOLEAN)
    /\ LocaleStarts({CHOOSE t \in TreeChoices : ~t.children[1].isRegex},
                    {CHOOSE f \in FsChoices : f.dirs = {<<>>}})

NextGet ==
    \/ \E i \in GetSetInputs : Set(i[1], i[2], i[3])
    \/ \E i \in GetInputs, asked \in AskedTypes : Get(i[1], i[2], asked)

SpecGet == InitGet /\ [][NextGet]_vars

\* the read that a Get step makes is of 'debug' in section 'bleachbit'
ReadsDebug(a) == a.section = "bleachbit" /\ a.option = "debug"

\* the type a Get step asks for
AskedType(a) == IF a.asked = "omitted" THEN convertTo_default ELSE a.asked

\* what the store alone gives for the read a Get step makes
StoreGives(m, a) ==
    super_Get(m, a.section, StripColon(a.section, a.option),
              ConvType(StripColon(a.section, a.option), AskedType(a)))

DefaultOrSet(m, a, r) ==
    IF has_option(m, "bleachbit", a.option)
    THEN r \in Coerce(m["bleachbit"][a.option], ConvType(a.option, AskedType(a)))
    ELSE a.option \in DOMAIN defaults => r = Returned(PyBool(defaults[a.option]))

InKeys(keys, option) == \E i \in DOMAIN keys : keys[i] = option

\* C16: the type of the value Get returns is fixed by the key: int for the
\* keys of int_keys, bool for the keys of boolean_keys, and for any other key
\* a string when the caller asks for no type, else the type asked for.
C16_TypeFixedByKey ==
    (lastOp.name = "Get" /\ result.status = "ok"
        /\ result.value.type # "NoneType")
    => LET option == StripColon(arg.section, arg.option)
       IN  result.value.type =
             IF InKeys(int_keys, option) THEN "int"
             ELSE IF InKeys(boolean_keys, option) THEN "bool"
             ELSE IF arg.asked = "omitted" THEN "str"
             ELSE arg.asked

\* the key holds a text in section 'bleachbit' that is not read as a boolean
NotBoolean(m, key) ==
    /\ has_option(m, "bleachbit", key)
    /\ lower(m["bleachbit"][key]) \notin DOMAIN BOOLEAN_STATES

\* C17: toggle of a key whose value is not boolean-coercible fails with an
\* error and leaves the store, in memory and in the file, as it was.
C17_ToggleFailsCleanly ==
    [][(lastOp'.name = "toggle" /\ NotBoolean(mem, lastOp'.key))
        => /\ result'.status # "ok"
           /\ mem' = mem
           /\ disk' = disk]_vars

\* C17 witness: 'shred' holds 'banana', toggle('shred') has failed and
\* 'banana' is still there.
C17_Witness ==
    /\ lastOp = [name |-> "toggle", key |-> "shred"]
    /\ result.status # "ok"
    /\ NotBoolean(mem, "shred")
    /\ mem["bleachbit"]["shred"] = "banana"

-----------------------------------------------------------------------------
(* Unix.py: building the rule tree (LocaleCleanerPath, Locales.add_xml) *)

\* A parsed XML node is
\*   [nodeType, nodeName, attrs, childNodes]
\* attrs maps the attributes the node has to their texts.  A place in the rule
\* tree is the sequence of child indexes that leads to it from Locales._paths.

hasAttribute(xml_node, name) == name \in DOMAIN xml_node.attrs

\* Element.getAttribute: '' for an attribute the node does not have
getAttribute(xml_node, name) ==
    IF hasAttribute(xml_node, name) THEN xml_node.attrs[name] ELSE <<>>

\* LocaleCleanerPath.__init__
LocaleCleanerPath(location, compiled) ==
    [kind |-> "path", isRegex |-> compiled, pattern |-> location,
     children |-> <<>>]

RECURSIVE NodeAt(_, _)
NodeAt(tree, place) ==
    IF place = <<>> THEN tree
    ELSE NodeAt(tree.children[Head(place)], Tail(place))

RECURSIVE AppendAt(_, _, _)
\* self.children.append(child) for the node at place
AppendAt(tree, place, child) ==
    IF place = <<>> THEN [tree EXCEPT !.children = Append(@, child)]
    ELSE [tree EXCEPT !.children[Head(place)] =
                AppendAt(@, Tail(place), child)]

\* an add_child that keeps the name of a rule node in place of the node
add_child_NameOnly(tree, place, child) ==
    [tree |-> AppendAt(tree, place,
                       IF child.kind = "path"
                       THEN [kind |-> "str", pattern |-> child.pattern,
                             children |-> <<>>]
                       ELSE child),
     place |-> place \o <<Len(NodeAt(tree, place).children) + 1>>]

\* LocaleCleanerPath.add_child: the tree, and the place of the child returned
add_child(tree, place, child) ==
    [tree |-> AppendAt(tree, place, child),
     place |-> place \o <<Len(NodeAt(tree, place).children) + 1>>]

RECURSIVE Scan(_, _, _)
\* re.compile reads the text from character i with depth groups open: a
\* backslash takes the next character with it, every ')' closes a '(' that is
\* open, and no group is open at the end
Scan(text, i, depth) ==
    IF i > Len(text) THEN depth = 0
    ELSE IF text[i] = "\\" THEN i < Len(text) /\ Scan(text, i + 2, depth)
    ELSE IF text[i] = "(" THEN Scan(text, i + 1, depth + 1)
    ELSE IF text[i] = ")" THEN depth > 0 /\ Scan(text, i + 1, depth - 1)
    ELSE Scan(text, i + 1, depth)

\* re.compile(text) does not raise
Compiles(text) == Scan(text, 1, 0)

\* an add_path_filter without the compilation: the texts are kept as given
add_path_filter_Unchecked(tree, place, pre, post) ==
    [tree |-> add_child(tree, place,
                        [kind |-> "filter", pre |-> pre, post |-> post]).tree,
     status |-> "ok"]

\* LocaleCleanerPath.add_path_filter: localepattern between pre and post is
\* well formed, so the whole compiles when pre followed by post does
add_path_filter(tree, place, pre, post) ==
    IF Compiles(pre \o post)
    THEN [tree |-> add_child(tree, place,
                        [kind |-> "filter", pre |-> pre, post |-> post]).tree,
          status |-> "ok"]
    ELSE [tree |-> tree, status |-> "RuntimeError"]

\* str.count
count(text, ch) == Cardinality({i \in DOMAIN text : text[i] = ch})

\* the two parts of userfilter.split('*') when there is one star
split(text, ch) ==
    LET i == CHOOSE k \in DOMAIN text : text[k] = ch
    IN  <<SubSeq(text, 1, i - 1), SubSeq(text, i + 1, Len(text))>>

RECURSIVE escape(_)
\* re.sub(r'([\[\]()^$.])', r'\\\1', p)
escape(p) ==
    IF p = <<>> THEN <<>>
    ELSE IF Head(p) \in {"[", "]", "(", ")", "^", "$", "."}
         THEN <<"\\", Head(p)>> \o escape(Tail(p))
         ELSE <<Head(p)>> \o escape(Tail(p))

\* a test for slashes that finds none
HasSlash_Never(pattern) == FALSE

\* '/' in pattern
HasSlash(pattern) == \E i \in DOMAIN pattern : pattern[i] = "/"
\* add_xml for the node itself, before its child nodes: the tree, how the
\* step ended, and the parent the child nodes are added to
add_xml_node(tree, xml_node, parent) ==
    IF xml_node.nodeName = "regexfilter"
    THEN LET added == add_path_filter(tree, parent,
                          getAttribute(xml_node, "prefix"),
                          getAttribute(xml_node, "postfix"))
         IN  [tree |-> added.tree, status |-> added.status, parent |-> parent]
    ELSE IF xml_node.nodeName = "path"
    THEN IF hasAttribute(xml_node, "directoryregex")
         THEN LET pattern == getAttribute(xml_node, "directoryregex")
                  added == add_child(tree, parent,
                                     LocaleCleanerPath(pattern, TRUE))
              IN  IF HasSlash(pattern)
                  THEN [tree |-> tree, status |-> "RuntimeError",
                        parent |-> parent]
                  ELSE IF ~Compiles(pattern)
                  THEN [tree |-> tree, status |-> "re.error",
                        parent |-> parent]
                  ELSE [tree |-> added.tree, status |-> "ok",
                        parent |-> added.place]
         ELSE LET located ==
                    IF hasAttribute(xml_node, "location")
                    THEN add_child(tree, parent,
                            LocaleCleanerPath(
                                getAttribute(xml_node, "location"), FALSE))
                    ELSE [tree |-> tree, place |-> parent]
                  userfilter == getAttribute(xml_node, "filter")
              IN  IF ~hasAttribute(xml_node, "filter")
                  THEN [tree |-> located.tree, status |-> "ok",
                        parent |-> located.place]
                  ELSE IF count(userfilter, "*") # 1
                  THEN [tree |-> located.tree, status |-> "RuntimeError",
                        parent |-> located.place]
                  ELSE LET added == add_path_filter(located.tree,
                                        located.place,
                                        escape(split(userfilter, "*")[1]),
                                        escape(split(userfilter, "*")[2]))
                       IN  [tree |-> added.tree, status |-> added.status,
                            parent |-> located.place]
    ELSE [tree |-> tree, status |-> "RuntimeError", parent |-> parent]

RECURSIVE add_xml(_, _, _)
RECURSIVE add_xml_children(_, _, _)

\* the loop over xml_node.childNodes; an exception ends it
add_xml_children(tree, childNodes, parent) ==
    IF childNodes = <<>> THEN [tree |-> tree, status |-> "ok"]
    ELSE LET first == add_xml(tree, Head(childNodes), parent)
         IN  IF first.status # "ok" THEN first
             ELSE add_xml_children(first.tree, Tail(childNodes), parent)

\* Locales.add_xml(xml_node, parent): the tree as the call leaves it, and the
\* exception it raised or "ok"
add_xml(tree, xml_node, parent) ==
    IF xml_node.nodeType # "ELEMENT_NODE"
    THEN [tree |-> tree, status |-> "ok"]
    ELSE LET own == add_xml_node(tree, xml_node, parent)
         IN  IF own.status # "ok"
             THEN [tree |-> own.tree, status |-> own.status]
             ELSE add_xml_children(own.tree, xml_node.childNodes, own.parent)
\* ---- inputs of add_xml ----

Element(nodeName, attrs, childNodes) ==
    [nodeType |-> "ELEMENT_NODE", nodeName |-> nodeName, attrs |-> attrs,
     childNodes |-> childNodes]

\* the text between two elements
TextNode ==
    [nodeType |-> "TEXT_NODE", nodeName |-> "#text", attrs |-> <<>>,
     childNodes |-> <<>>]

NoAttrs == [a \in {} |-> <<>>]

Attr(name, text) == [a \in {name} |-> text]

lo == <<"l", "o">>

\* the attributes of the <path> elements tried
PathAttrs == {
    Attr("location", loc),
    Attr("location", loc) @@ Attr("filter", <<"*">>),
    Attr("location", loc) @@ Attr("filter", <<"*", "*">>),
    Attr("location", loc) @@ Attr("filter", <<"x">>),
    Attr("location", loc) @@ Attr("filter", <<"(", "*">>),
    Attr("filter", <<"*">>),
    Attr("directoryregex", lo),
    Attr("directoryregex", <<"a", "/", "b">>),
    Attr("directoryregex", <<"(">>),
    Attr("directoryregex", lo) @@ Attr("filter", <<"*">>),
    Attr("directoryregex", lo) @@ Attr("filter", <<"*", "*">>) }

\* the attributes of the <regexfilter> elements tried
FilterAttrs == {
    NoAttrs,
    Attr("prefix", <<"(">>),
    Attr("prefix", <<"(">>) @@ Attr("postfix", <<")">>) }

\* nodes without child nodes
XmlLeaves ==
    {Element("path", a, <<>>) : a \in PathAttrs}
        \cup {Element("regexfilter", a, <<>>) : a \in FilterAttrs}
        \cup {Element("foo", NoAttrs, <<>>), TextNode}

\* the attributes of the <path> elements that are given a child node
ParentAttrs == {
    Attr("location", loc),
    Attr("location", loc) @@ Attr("filter", <<"*">>),
    Attr("directoryregex", lo) }

XmlNodes ==
    XmlLeaves
        \cup {Element("path", a, <<c>>) : a \in ParentAttrs, c \in XmlLeaves}

\* Locales._paths = LocaleCleanerPath(location='/')
EmptyTree == LocaleCleanerPath(<<"/">>, FALSE)

\* add_xml calls are made while the root has fewer children than this
MaxRootChildren == 2

\* Locales.add_xml(xml_node): parent is None, so the root is the parent
AddXml(xml_node) ==
    /\ Len(paths.children) < MaxRootChildren
    /\ lastOp' = [name |-> "add_xml", key |-> xml_node.nodeName]
    /\ arg' = xml_node
    /\ paths' = add_xml(paths, xml_node, <<>>).tree
    /\ result' = Raised(add_xml(paths, xml_node, <<>>).status)
    /\ UNCHANGED <<fs, locales_to_keep, discovered, cursor, yielded, outcome,
                   listed>>
    /\ UNCHANGED <<mem, disk, dirExists, purged, lastFull, lastIo, debugCli, chaffVars>>

InitTree ==
    /\ StoreStarts({NoFile})
    /\ LocaleStarts({EmptyTree}, {CHOOSE f \in FsChoices : f.dirs = {<<>>}})

NextTree == \E xml_node \in XmlNodes : AddXml(xml_node)

SpecTree == InitTree /\ [][NextTree]_vars

RECURSIVE Elements(_)
\* the element nodes of a document
Elements(xml_node) ==
    IF xml_node.nodeType # "ELEMENT_NODE" THEN {}
    ELSE {xml_node} \cup
         UNION {Elements(xml_node.childNodes[i]) :
                    i \in DOMAIN xml_node.childNodes}

\* a path node whose directoryregex has a slash
SlashInRegex(n) ==
    /\ n.nodeName = "path"
    /\ "directoryregex" \in DOMAIN n.attrs
    /\ \E i \in DOMAIN n.attrs["directoryregex"] :
            n.attrs["directoryregex"][i] = "/"

\* a path node whose filter has no star or several
StarsInFilter(n) ==
    /\ n.nodeName = "path"
    /\ "filter" \in DOMAIN n.attrs
    /\ Cardinality({i \in DOMAIN n.attrs["filter"] :
                        n.attrs["filter"][i] = "*"}) # 1

\* an element that is neither <path> nor <regexfilter>
InvalidNode(n) == n.nodeName \notin {"path", "regexfilter"}

\* C18 as stated: add_xml raises when the document has a path node with a
\* slash in directoryregex, a path node whose filter has zero or several
\* stars, or an element that is neither path nor regexfilter.
C18_AddXmlRaises ==
    (/\ lastOp.name = "add_xml"
     /\ \E n \in Elements(arg) :
            SlashInRegex(n) \/ StarsInFilter(n) \/ InvalidNode(n))
    => result.status # "ok"

\* C18: add_xml raises when the document has a path node with a slash in
\* directoryregex, a path node without directoryregex whose filter has zero
\* or several stars, or an element that is neither path nor regexfilter.
C18_AddXmlRaisesUnlessRegexNode ==
    (/\ lastOp.name = "add_xml"
     /\ \E n \in Elements(arg) :
            \/ SlashInRegex(n)
            \/ StarsInFilter(n) /\ "directoryregex" \notin DOMAIN n.attrs
            \/ InvalidNode(n))
    => result.status # "ok"

\* C18 witness: a <path directoryregex="a/b"> below a <path location="loc">
\* made add_xml raise RuntimeError.
C18_Witness ==
    /\ lastOp.name = "add_xml"
    /\ arg.childNodes # <<>>
    /\ SlashInRegex(arg.childNodes[1])
    /\ result.status = "RuntimeError"

RECURSIVE RuleNodes(_)
\* the LocaleCleanerPath objects of a tree
RuleNodes(node) ==
    IF node.kind # "path" THEN {}
    ELSE {node} \cup
         UNION {RuleNodes(node.children[i]) : i \in DOMAIN node.children}

\* the children of the tree's rule nodes
Children(tree) ==
    UNION {{n.children[i] : i \in DOMAIN n.children} : n \in RuleNodes(tree)}

\* C19: every pattern the rule tree holds, directory patterns and leaf
\* filters, is one that re.compile accepted, whatever add_xml calls were made
\* and however they ended.
C19_PatternsCompiled ==
    /\ \A n \in RuleNodes(paths) : n.isRegex => Compiles(n.pattern)
    /\ \A c \in Children(paths) :
            c.kind = "filter" => Compiles(c.pre \o c.post)

\* C19 witness: add_xml has just raised on a regexfilter whose prefix does not
\* compile, and the tree holds a compiled directory pattern and a leaf filter
\* from an earlier call.
C19_Witness ==
    /\ lastOp = [name |-> "add_xml", key |-> "regexfilter"]
    /\ result.status = "RuntimeError"
    /\ \E n \in RuleNodes(paths) : n.isRegex
    /\ \E c \in Children(paths) : c.kind = "filter"

\* C20 as stated: the children of a node are all rule nodes or all leaf
\* filters.
C20_ChildrenOfOneKind ==
    \A n \in RuleNodes(paths) :
        \A i, j \in DOMAIN n.children :
            n.children[i].kind = n.children[j].kind

\* C20: every child of a node is a rule node or a leaf filter, only rule
\* nodes have children of their own, and one list can hold both kinds: the
\* node's own filter comes before what its child elements add.
C20_ChildrenAreNodesOrFilters ==
    \A c \in Children(paths) :
        /\ c.kind \in {"path", "filter"}
        /\ c.kind = "path" <=> "children" \in DOMAIN c
        /\ c.kind = "filter" <=> {"pre", "post"} \subseteq DOMAIN c

\* C20 witness: a node added for <path location="loc" filter="*"> with a
\* <path> child holds its filter first and a rule node second.
C20_Witness ==
    /\ lastOp.name = "add_xml"
    /\ \E n \in RuleNodes(paths) :
            /\ Len(n.children) = 2
            /\ n.children[1].kind = "filter"
            /\ n.children[2].kind = "path"

-----------------------------------------------------------------------------
(* The resolver over nested directories and nodes with several children *)

lop == <<"l", "o", "p">>
LC == <<"L", "C">>
en == <<"e", "n">>
fr == <<"f", "r">>
de_DE == <<"d", "e", "_", "D", "E">>

\* a node for <path location="LC" filter="*"/>
LCNode == [kind |-> "path", isRegex |-> FALSE, pattern |-> LC,
           children |-> <<LeafFilter>>]

\* the children lists tried below the first node
WalkChildLists == {<<LeafFilter>>, <<LeafFilter, LCNode>>,
                   <<LCNode, LeafFilter>>}

\* the root with one node, literal "loc" or pattern "lo", and its children
WalkTrees ==
    {[kind |-> "path", isRegex |-> FALSE, pattern |-> <<"/">>,
      children |-> <<[kind |-> "path", isRegex |-> r,
                      pattern |-> IF r THEN lo ELSE loc,
                      children |-> cs]>>] :
        r \in BOOLEAN, cs \in WalkChildLists}

\* at most this many entries in a directory of the nested filesystems
MaxWalkEntries == 2

\* listings of "/": loc, lop and xx in some order
RootListings ==
    {l \in UNION {[1..n -> {loc, lop, <<"x", "x">>}] : n \in 1..MaxWalkEntries} :
        /\ \A i, j \in 1..Len(l) : i # j => l[i] # l[j]
        /\ \E i \in 1..Len(l) : l[i] = loc}

\* listings of /loc: en, fr and LC in some order
LocListings ==
    {l \in UNION {[1..n -> {en, fr, LC}] : n \in 1..MaxWalkEntries} :
        \A i, j \in 1..Len(l) : i # j => l[i] # l[j]}

\* "/" with its entries, of which loc, lop, xx and loc/LC are directories or
\* plain files; /loc/LC holds de_DE, /lop holds fr, /xx holds en
WalkFs ==
    {[dirs |-> {<<>>} \cup {<<d>> : d \in D}
                      \cup (IF lc THEN {<<loc, LC>>} ELSE {}),
      list |-> (<<>> :> r) @@ (<<loc>> :> l) @@ (<<lop>> :> <<fr>>)
                  @@ (<<<<"x", "x">>>> :> <<en>>)
                  @@ (<<loc, LC>> :> <<de_DE>>)] :
        r \in RootListings, l \in LocListings, lc \in BOOLEAN,
        D \in SUBSET {loc, lop, <<"x", "x">>}}

\* a state of WalkFs is one the code can meet: a directory is listed in its
\* parent
WalkFsOk(f) ==
    /\ \A d \in f.dirs : d # <<>> =>
            /\ SubSeq(d, 1, Len(d) - 1) \in f.dirs
            /\ \E i \in DOMAIN f.list[SubSeq(d, 1, Len(d) - 1)] :
                    f.list[SubSeq(d, 1, Len(d) - 1)][i] = d[Len(d)]

\* get_subpaths(basepath) called on a node of the tree
GetSubpaths(node, basepath) ==
    /\ lastOp' = [name |-> "get_subpaths", key |-> Join(node.pattern)]
    /\ arg' = [node |-> node, basepath |-> basepath]
    /\ result' = Returned(get_subpaths(fs, node, basepath))
    /\ UNCHANGED <<mem, disk, dirExists, purged, lastFull, lastIo, debugCli, chaffVars>>
    /\ UNCHANGED localeVars

WalkKeepSets == {[isNone |-> TRUE, items |-> {}],
                 [isNone |-> FALSE, items |-> {"en"}]}

InitWalk ==
    /\ StoreStarts({NoFile})
    /\ LocaleStarts(WalkTrees, {f \in WalkFs : WalkFsOk(f)})

NextWalk ==
    \/ \E keep \in WalkKeepSets : StartTraversal(keep)
    \/ NextItem
    \/ Exhausted
    \/ \E node \in RuleNodes(paths), basepath \in fs.dirs :
          GetSubpaths(node, basepath)

SpecWalk == InitWalk /\ [][NextWalk]_vars

\* the name of a path's last segment, and the directory it lies in
Basename(path) == path[Len(path)]
Dirname(path) == SubSeq(path, 1, Len(path) - 1)

\* the entries of a sequence
Entries(seq) == {seq[i] : i \in DOMAIN seq}

\* C21: get_subpaths resolves a literal-name node to the one path base/name
\* when that is a directory and to nothing otherwise, and a pattern node to
\* the entries of base whose name the pattern matches and which are
\* directories, each once; a plain file is never among them.
C21_SubpathsAreMatchingDirs ==
    lastOp.name = "get_subpaths" =>
        LET node == arg.node
            base == arg.basepath
            got == result.value
            named == IF node.pattern = <<"/">> THEN <<>>
                     ELSE Append(base, node.pattern)
        IN  /\ Entries(got) \subseteq fs.dirs
            /\ \A i, j \in DOMAIN got : i # j => got[i] # got[j]
            /\ ~node.isRegex =>
                  got = IF named \in fs.dirs THEN <<named>> ELSE <<>>
            /\ node.isRegex =>
                  Entries(got) =
                      {Append(base, p) : p \in
                          {q \in Entries(fs.list[base]) :
                              /\ StartsWith(q, node.pattern)
                              /\ Append(base, q) \in fs.dirs}}

\* C21 witness: the pattern node lo resolved "/" to /loc alone while "/" also
\* holds lop as a plain file.
C21_Witness ==
    /\ lastOp.name = "get_subpaths"
    /\ arg.node.isRegex
    /\ arg.basepath = <<>>
    /\ lop \in Entries(fs.list[<<>>])
    /\ <<lop>> \notin fs.dirs
    /\ result.value = <<<<loc>>>>

\* the position of an entry in a sequence that holds it once
PositionIn(seq, x) == CHOOSE i \in DOMAIN seq : seq[i] = x

\* the node below the root, and the child of it that yields the item at
\* path: its leaf filter for an entry of the resolved directory, its node LC
\* for an entry of LC
FirstNode == paths.children[1]
YieldingChild(path) ==
    CHOOSE i \in DOMAIN FirstNode.children :
        FirstNode.children[i].kind = IF Len(path) = 2 THEN "filter" ELSE "path"

\* the items are in the order of a depth-first walk: resolved directories in
\* the order of the listing of "/", for one resolved directory the children
\* in the order of the children list, for one leaf filter the entries in the
\* order of the listing
InWalkOrder(a, b) ==
    IF a[1] # b[1]
    THEN PositionIn(fs.list[<<>>], a[1]) < PositionIn(fs.list[<<>>], b[1])
    ELSE IF YieldingChild(a) # YieldingChild(b)
    THEN YieldingChild(a) < YieldingChild(b)
    ELSE PositionIn(fs.list[Dirname(a)], Basename(a))
            < PositionIn(fs.list[Dirname(b)], Basename(b))

\* C22: get_localizations gives its items depth-first, the children of a node
\* in the order they were declared for each resolved subpath, and every item
\* is an immediate entry of a resolved directory whose node has a leaf
\* filter: nothing below LC is given unless LC is a node with a filter.
C22_DepthFirstImmediateEntries ==
    outcome \in {"running", "ok"} =>
        /\ \A i, j \in DOMAIN discovered :
              i < j => InWalkOrder(discovered[i].path, discovered[j].path)
        /\ \A i \in DOMAIN discovered :
              LET path == discovered[i].path
              IN  /\ Dirname(path) \in fs.dirs
                  /\ Basename(path) \in Entries(fs.list[Dirname(path)])
                  /\ Len(path) \in {2, 3}
                  /\ \E k \in DOMAIN FirstNode.children :
                        FirstNode.children[k].kind =
                            IF Len(path) = 2 THEN "filter" ELSE "path"

\* C22 witness: with the children declared as [LC, filter], the item of
\* /loc/LC came first and the item of /loc second.
C22_Witness ==
    /\ outcome = "ok"
    /\ Len(discovered) >= 2
    /\ discovered[1].path = <<loc, LC, de_DE>>
    /\ discovered[2].path = <<loc, en>>

RECURSIVE PathsToYield(_, _)
\* the paths of the items that pass the yield condition, in order
PathsToYield(items, keep) ==
    IF items = <<>> THEN <<>>
    ELSE (IF ShouldYield(Head(items), keep) THEN <<Head(items).path>>
          ELSE <<>>) \o PathsToYield(Tail(items), keep)

\* C23: no step of a traversal, started, continued, ended or left unfinished
\* and started again, changes the filesystem or the rule tree, and a
\* traversal that ends has yielded what a traversal of the filesystem and
\* tree as they are now yields.
C23_TraversalReadOnly ==
    /\ [][fs' = fs /\ paths' = paths]_vars
    /\ [](outcome = "ok" =>
            yielded = PathsToYield(get_localizations(fs, paths, <<>>),
                                   locales_to_keep))

\* C23 witness: a traversal that listed two directories and yielded a path
\* has ended.
C23_Witness ==
    /\ outcome = "ok"
    /\ Len(listed) >= 2
    /\ yielded # <<>>
    /\ \A d \in Entries(listed) : d \in fs.dirs

\* the items of a sequence of events, in order
RECURSIVE ItemsOf(_)
ItemsOf(events) ==
    IF events = <<>> THEN <<>>
    ELSE (IF Head(events).ev = "yield" THEN <<Head(events).item>> ELSE <<>>)
             \o ItemsOf(Tail(events))

\* C24: the traversal is lazy and single-pass.  While it runs, the
\* directories listed so far are those the walk lists up to the last item
\* requested, none when no item was requested yet, and all of them only when
\* the walk has ended; when nothing is requested nothing is listed; an ended
\* traversal gives nothing more, and the position moves back only to the
\* root, by a new traversal that starts with nothing listed or yielded.
C24_LazySinglePass ==
    /\ [](outcome \in {"running", "ok"} =>
            LET events == walk(fs, paths, <<>>)
                n == cursor - 1
            IN  /\ ItemsOf(events) = discovered
                /\ (outcome = "running" /\ n = 0) => listed = <<>>
                /\ (outcome = "running" /\ n > 0) =>
                      \E k \in DOMAIN events :
                          /\ events[k].ev = "yield"
                          /\ events[k].item = discovered[n]
                          /\ listed = ListdirsOf(SubSeq(events, 1, k))
                /\ outcome = "ok" => listed = ListdirsOf(events))
    /\ [][listed' # listed => (cursor' # cursor \/ outcome' # outcome)]_vars
    /\ [][(outcome = "ok" /\ outcome' = "ok")
            => (yielded' = yielded /\ listed' = listed /\ cursor' = cursor)]_vars
    /\ [][(cursor' < cursor \/ (outcome = "ok" /\ outcome' = "running"))
            => (cursor' = 1 /\ yielded' = <<>> /\ listed' = <<>>)]_vars

\* C24 witness: the consumer has taken the one item of /loc/LC and stopped;
\* /loc/LC is listed and /loc, whose filter comes next, is not.
C24_Witness ==
    /\ outcome = "running"
    /\ cursor = 2
    /\ discovered[1].path = <<loc, LC, de_DE>>
    /\ Len(discovered) >= 2
    /\ <<loc, LC>> \in Entries(listed)
    /\ <<loc>> \notin Entries(listed)

-----------------------------------------------------------------------------
(* Structured path lists read from a file written earlier *)

\* a file holds at most this many entries in section whitelist/paths
MaxStoredPaths == 3

\* the type codes an earlier file can carry: the two that the reader has a
\* list for, and others
TypeCodes == {"file", "folder", "files", "folders", "dir"}

TypeKey(i) == str(i) \o <<"_","t","y","p","e">>
PathKey(i) == str(i) \o <<"_","p","a","t","h">>

\* the section with entries 0 .. n-1 of the given type codes
StoredPaths(codes) ==
    [o \in {TypeKey(i - 1) : i \in DOMAIN codes}
            \cup {PathKey(i - 1) : i \in DOMAIN codes} |->
        LET i == CHOOSE k \in DOMAIN codes : o \in {TypeKey(k - 1), PathKey(k - 1)}
        IN  IF o = TypeKey(i - 1) THEN codes[i] ELSE "/p" \o Join(str(i - 1))]

\* bleachbit.ini files with a whitelist/paths section
PathsFiles ==
    {[exists |-> TRUE,
      content |-> ("bleachbit" :> EmptySection)
                    @@ ("whitelist/paths" :> StoredPaths(codes))] :
        codes \in UNION {[1..n -> TypeCodes] : n \in 0..MaxStoredPaths}}

InitStored ==
    /\ StoreStarts(PathsFiles)
    /\ LocaleStarts({CHOOSE t \in TreeChoices : ~t.children[1].isRegex},
                    {CHOOSE f \in FsChoices : f.dirs = {<<>>}})

NextStored == \E section \in PathsSections : GetPaths(section)

SpecStored == InitStored /\ [][NextStored]_vars

\* the type codes stored in a section
StoredTypes(m, section) ==
    {m[section][o] : o \in {k \in DOMAIN m[section] :
                                EndsWith(k, <<"_","t","y","p","e">>)}}

\* C25: reading a path list in which an entry has a type code other than
\* 'file' and 'folder' raises an error; no structure is returned.
C25_UnknownTypeRaises ==
    (/\ lastOp.name = "get_paths"
     /\ has_section(mem, lastOp.key)
     /\ StoredTypes(mem, lastOp.key) \ {"file", "folder"} # {})
    => result.status # "ok"

\* C25 witness: the section holds a 'file' entry and a 'dir' entry, and
\* reading it raised KeyError.
C25_Witness ==
    /\ lastOp = [name |-> "get_paths", key |-> "whitelist/paths"]
    /\ StoredTypes(mem, "whitelist/paths") = {"file", "dir"}
    /\ result.status = "KeyError"

\* C26: after set_language calls, get_languages() returns exactly the
\* languages for which get_language is True; a language last set to False is
\* not among them.
C26_LanguagesAreSelected ==
    lastOp.name = "set_language" =>
        /\ ~get_languages(mem).isNone
        /\ \A langid \in get_languages(mem).items \cup Languages :
              langid \in get_languages(mem).items
                  <=> get_language(mem, langid) = Returned(TRUE)

-----------------------------------------------------------------------------
(* Remembered hashes and the writes that purge them *)

\* the hashpath keys stored directly: a path that exists and one that does not
HashKeys == {"/a", "/new"}

InitPurge ==
    /\ StoreStarts({NoFile, EarlierFile})
    /\ LocaleStarts({CHOOSE t \in TreeChoices : ~t.children[1].isRegex},
                    {CHOOSE f \in FsChoices : f.dirs = {<<>>}})

NextPurge ==
    \/ \E key \in HashKeys : Set("hashpath", key, "h3")
    \/ \E value \in BOOLEAN : SetLanguage("fr", value, FALSE)
    \/ \E values \in {<<"/a">>, <<>>} : SetList("shred_drives", values, FALSE)
    \/ \E value \in BOOLEAN, io \in IoOutcomes :
          SetTree("system", TRUE, "cache", value, io)

SpecPurge == InitPurge /\ [][NextPurge]_vars

\* the operations that end with Update_And_Write
WritingOps == {"set_list", "set_paths", "set_language", "set_tree"}

\* C27: the first Update_And_Write of an instance removes from section
\* 'hashpath' the keys whose path does not exist and keeps the others with
\* their values; a later write leaves the section as it is; an operation
\* that does not write does not purge; purged never goes back to False.
C27_PurgedOnceAtFirstWrite ==
    /\ [][lastOp'.name \in WritingOps =>
            /\ purged'
            /\ ~purged =>
                  /\ DOMAIN mem'["hashpath"] =
                        {k \in DOMAIN mem["hashpath"] : k \in ExistingPaths}
                  /\ \A k \in DOMAIN mem'["hashpath"] :
                        mem'["hashpath"][k] = mem["hashpath"][k]
            /\ purged => mem'["hashpath"] = mem["hashpath"]
         ]_vars
    /\ [][lastOp'.name \notin WritingOps => purged' = purged]_vars
    /\ [][purged => purged']_vars

\* C27 witness: the instance has purged, a hash for a path that does not
\* exist was stored afterwards, and a later write has left it there.
C27_Witness ==
    /\ purged
    /\ lastOp.name \in WritingOps
    /\ has_option(mem, "hashpath", "/new")
    /\ ~has_option(mem, "hashpath", "/gone")
    /\ has_option(mem, "hashpath", "/a")

\* C28: a call of add_xml that raises leaves the rule tree exactly as it was
\* before the call, with no child node or filter added.
C28_AddXmlAtomicOnFailure ==
    [][(lastOp'.name = "add_xml" /\ result'.status # "ok") => paths' = paths]_vars

-----------------------------------------------------------------------------
(* GuiChaff.py: the make-files thread and the main loop *)

\* largest value of the file count spin button
MaxFileCount == 2

\* inspiration_combo.get_active(): 0 and 1 are the two generators, 2 stands
\* for any other value
Inspirations == {0, 1, 2}

\* one call of on_progress: the arguments that GLib.idle_add is given
Progress(fraction, msg, is_done) ==
    [fraction |-> fraction, msg |-> msg, is_done |-> is_done]

\* on_progress(fraction, msg=None, is_done=False): GLib.idle_add queues the
\* call of _on_progress for the main loop; None is ""
on_progress(queue, fraction, msg, is_done) ==
    Append(queue, Progress(fraction, msg, is_done))

\* the thread hands over one call and moves on
HandOver(call, next) ==
    /\ idle' = Append(idle, call)
    /\ sent' = Append(sent, call)
    /\ thread' = next
    /\ UNCHANGED <<make_button, progressbar, handled>>

\* the thread ends with an exception: nothing is handed over
Dies ==
    /\ thread' = [thread EXCEPT !.pc = "dead"]
    /\ UNCHANGED <<make_button, progressbar, idle, sent, handled>>

\* ChaffDialog.on_make_files: the callback of the make button, which only a
\* sensitive button calls
on_make_files(file_count, output_dir, delete_when_finished, inspiration, models) ==
    /\ make_button
    /\ IF output_dir = "" \/ ~models
       THEN UNCHANGED chaffVars
       ELSE /\ progressbar' = [visible |-> TRUE, text |-> "Generating files",
                               fraction |-> <<0, 1>>]
            /\ make_button' = FALSE
            /\ thread' = [pc |-> IF inspiration \in {0, 1}
                                 THEN "generating" ELSE "generated",
                          file_count |-> file_count,
                          inspiration |-> inspiration,
                          delete_when_finished |-> delete_when_finished,
                          i |-> 0,
                          bound |-> FALSE]
            /\ idle' = <<>>
            /\ sent' = <<>>
            /\ handled' = <<>>
    /\ UNCHANGED <<localeVars, storeVars>>

\* generate_2600 / generate_emails report a file written
GenerateProgress ==
    /\ thread.pc = "generating"
    /\ thread.i < thread.file_count
    /\ HandOver(Progress(<<thread.i + 1, thread.file_count>>, "", FALSE),
                [thread EXCEPT !.i = thread.i + 1])
    /\ UNCHANGED <<localeVars, storeVars>>

\* generate_2600 / generate_emails return the names of the files or raise
GenerateEnds(raises) ==
    /\ thread.pc = "generating"
    /\ IF raises THEN Dies
       ELSE /\ thread' = [thread EXCEPT !.pc = "generated", !.i = 0,
                                        !.bound = TRUE]
            /\ UNCHANGED <<make_button, progressbar, idle, sent, handled>>
    /\ UNCHANGED <<localeVars, storeVars>>

\* if delete_when_finished: on_progress(0, msg=_('Deleting files'))
StartDeleting ==
    /\ thread.pc = "generated"
    /\ thread.delete_when_finished
    /\ HandOver(Progress(<<0, 1>>, "Deleting files", FALSE),
                [thread EXCEPT !.pc = "deleting", !.i = 0])
    /\ UNCHANGED <<localeVars, storeVars>>

\* os.unlink(generated_file_names[i]); on_progress(1.0 * (i+1)/file_count).
\* The name generated_file_names is bound only when a generator has returned;
\* unlinked is whether os.unlink returned
Unlink(unlinked) ==
    /\ thread.pc = "deleting"
    /\ thread.i < thread.file_count
    /\ IF ~thread.bound \/ ~unlinked THEN Dies
       ELSE HandOver(Progress(<<thread.i + 1, thread.file_count>>, "", FALSE),
                     [thread EXCEPT !.i = thread.i + 1])
    /\ UNCHANGED <<localeVars, storeVars>>

\* on_progress(1.0, is_done=True), the last statement of make_files_thread
Finish ==
    /\ \/ thread.pc = "generated" /\ ~thread.delete_when_finished
       \/ thread.pc = "deleting" /\ thread.i = thread.file_count
    /\ HandOver(Progress(<<1, 1>>, "", TRUE),
                [thread EXCEPT !.pc = "finished"])
    /\ UNCHANGED <<localeVars, storeVars>>

\* make_files_thread: one step of the thread
make_files_thread ==
    \/ GenerateProgress
    \/ \E raises \in BOOLEAN : GenerateEnds(raises)
    \/ StartDeleting
    \/ \E unlinked \in BOOLEAN : Unlink(unlinked)
    \/ Finish

\* _on_progress(fraction, msg, is_done), run by the main loop for the oldest
\* queued call
MainLoopIdle ==
    /\ idle # <<>>
    /\ LET call == Head(idle)
       IN  /\ progressbar' =
                 [visible |-> progressbar.visible /\ ~call.is_done,
                  text |-> IF call.msg # "" THEN call.msg
                           ELSE progressbar.text,
                  fraction |-> call.fraction]
           /\ make_button' = (make_button \/ call.is_done)
           /\ handled' = Append(handled, call)
    /\ idle' = Tail(idle)
    /\ UNCHANGED <<thread, sent>>
    /\ UNCHANGED <<localeVars, storeVars>>

InitChaff ==
    /\ StoreStarts({NoFile})
    /\ LocaleStarts({CHOOSE t \in TreeChoices : ~t.children[1].isRegex},
                    {CHOOSE f \in FsChoices : f.dirs = {<<>>}})

NextChaff ==
    \/ \E file_count \in 0..MaxFileCount, output_dir \in {"", "/tmp"},
          delete_when_finished \in BOOLEAN, inspiration \in Inspirations,
          models \in BOOLEAN :
          on_make_files(file_count, output_dir, delete_when_finished,
                        inspiration, models)
    \/ make_files_thread
    \/ MainLoopIdle

\* the thread keeps running while it has a step to take, and the main loop
\* runs the queued calls
SpecChaff ==
    /\ InitChaff
    /\ [][NextChaff]_vars
    /\ WF_vars(make_files_thread)
    /\ WF_vars(MainLoopIdle)

\* the thread has returned or has ended with an exception
ThreadEnded == thread.pc \in {"finished", "dead"}

\* the positions in calls that carry is_done=True
DonePositions(calls) == {k \in DOMAIN calls : calls[k].is_done}

\* C29: in every run of the thread the main loop runs the calls in the order
\* in which the thread handed them over; when the thread has ended exactly
\* one call carries is_done=True and it is the last; the make button becomes
\* sensitive only when that call is run, and a disabled button is eventually
\* sensitive again.
C29_DoneLastAndButtonReenabled ==
    /\ [](handled \o idle = sent)
    /\ [](ThreadEnded => DonePositions(sent) = {Len(sent)})
    /\ [](DonePositions(sent) \subseteq {Len(sent)})
    /\ [][(~make_button /\ make_button') =>
            (idle # <<>> /\ Head(idle).is_done /\ handled' = sent)]_vars
    /\ (~make_button ~> make_button)

-----------------------------------------------------------------------------
(* windows/NsisUtilities.py: the install and uninstall expressions *)

\* A name is a tuple of characters, a path a sequence of names (the parts
\* between backslashes), an expression text a sequence of lines.

\* most files in one directory
MaxNsisFiles == 2

DIRECTORY_TO_WALK == << <<"d">> >>
DIRECTORY_PREFIX_FOR_NSIS == << <<".", ".">> >>
REBOOTOK_FILE_EXTENSIONS == {<<"e", "x", "e">>, <<"p", "y", "d">>,
                             <<"d", "l", "l">>}
INSTDIR == << <<"$INSTDIR">> >>
Dot == <<".">>

\* os.path.splitext(file_name)[1][1:]: what follows the last dot, unless
\* only dots come before it
Extension(file_name) ==
    LET dots == {i \in DOMAIN file_name : file_name[i] = "."}
        last == CHOOSE i \in dots : \A j \in dots : j <= i
    IN  IF dots = {} \/ \A j \in 1..(last - 1) : file_name[j] = "."
        THEN <<>>
        ELSE SubSeq(file_name, last + 1, Len(file_name))

\* one line of an expression text
Line(op, path, files, reboot_ok) ==
    [op |-> op, path |-> path, files |-> files, reboot_ok |-> reboot_ok]

\* str.startswith on the two paths written with backslashes
root_startswith(root, prefix) ==
    /\ Len(root) >= Len(prefix)
    /\ \A i \in 1..(Len(prefix) - 1) : root[i] = prefix[i]
    /\ prefix # <<>> =>
          LET last == prefix[Len(prefix)]
              part == root[Len(prefix)]
          IN  /\ Len(part) >= Len(last)
              /\ SubSeq(part, 1, Len(last)) = last

\* os.path.relpath(root, directory_to_walk) for a root below the directory
relpath(root, start) ==
    IF root = start THEN <<Dot>>
    ELSE SubSeq(root, Len(start) + 1, Len(root))

RECURSIVE os_walk(_, _)
RECURSIVE os_walk_dirs(_, _)

\* os.walk(top), top-down: the directory, then each subdirectory's walk in
\* the order of dirs
os_walk(tree, root) ==
    <<[root |-> root, files |-> tree.files]>> \o os_walk_dirs(tree.dirs, root)

os_walk_dirs(dirs, root) ==
    IF dirs = <<>> THEN <<>>
    ELSE os_walk(Head(dirs).tree, root \o <<Head(dirs).name>>)
            \o os_walk_dirs(Tail(dirs), root)

\* what _walk_with_parent_directory_and_filepaths yields for one directory
Walked(root, files, directory_to_walk, parent_directory) ==
    [relative_folder_path |->
        IF ~parent_directory.isNone
        THEN IF relpath(root, directory_to_walk) = <<Dot>>
             THEN parent_directory.path
             ELSE parent_directory.path \o relpath(root, directory_to_walk)
        ELSE relpath(root, directory_to_walk),
     full_filepaths |-> [k \in DOMAIN files |-> root \o <<files[k]>>],
     file_names |-> files]

RECURSIVE WalkFrom(_, _, _, _)
\* the loop of _walk_with_parent_directory_and_filepaths over os.walk
WalkFrom(steps, directory_to_walk, directory_to_separate, parent_directory) ==
    IF steps = <<>> THEN <<>>
    ELSE LET rest == WalkFrom(Tail(steps), directory_to_walk,
                              directory_to_separate, parent_directory)
         IN  IF /\ ~directory_to_separate.isNone
                /\ root_startswith(Head(steps).root, directory_to_separate.path)
             THEN rest
             ELSE <<Walked(Head(steps).root, Head(steps).files,
                           directory_to_walk, parent_directory)>> \o rest

walk_with_parent_directory_and_filepaths(tree, directory_to_walk, directory_to_separate, parent_directory) ==
    WalkFrom(os_walk(tree, directory_to_walk), directory_to_walk,
             directory_to_separate, parent_directory)

\* _generate_delete_expressions(file_names, folder_path)
generate_delete_expressions(file_names, folder_path) ==
    [k \in DOMAIN file_names |->
        Line("Delete", folder_path \o <<file_names[k]>>, <<>>,
             Extension(file_names[k]) \in REBOOTOK_FILE_EXTENSIONS)]

\* new lines put behind the text so far
AddUninstall_Behind(new, uninstall_expressions) == uninstall_expressions \o new

\* uninstall_expressions = new + '\n' + uninstall_expressions
AddUninstall(new, uninstall_expressions) == new \o uninstall_expressions

RECURSIVE Generate(_, _, _)
\* the loop body of _generate_add_remove_nsis_expressions over what the walk
\* yields
Generate(walked, install_expressions, uninstall_expressions) ==
    IF walked = <<>>
    THEN [install |-> install_expressions, uninstall |-> uninstall_expressions]
    ELSE LET relative_folder_path == Head(walked).relative_folder_path
             full_filepaths == Head(walked).full_filepaths
             file_names == Head(walked).file_names
             set_out == Append(install_expressions,
                           Line("SetOutPath", INSTDIR \o relative_folder_path,
                                <<>>, FALSE))
             rmdir == AddUninstall(
                         <<Line("RMDir", INSTDIR \o relative_folder_path,
                                <<>>, FALSE)>>,
                         uninstall_expressions)
             folder_path == IF relative_folder_path = <<Dot>> THEN INSTDIR
                            ELSE INSTDIR \o relative_folder_path
         IN  IF full_filepaths # <<>>
             THEN Generate(Tail(walked),
                     Append(set_out,
                        Line("File", <<>>,
                             [k \in DOMAIN full_filepaths |->
                                DIRECTORY_PREFIX_FOR_NSIS \o full_filepaths[k]],
                             FALSE)),
                     AddUninstall(
                        generate_delete_expressions(file_names, folder_path),
                        rmdir))
             ELSE Generate(Tail(walked), set_out, rmdir)

\* _generate_add_remove_nsis_expressions; the final [:-1] takes the newline
\* off the last line
generate_add_remove_nsis_expressions(tree, directory_to_walk, parent_directory, directory_to_separate) ==
    Generate(walk_with_parent_directory_and_filepaths(
                 tree, directory_to_walk, directory_to_separate,
                 parent_directory),
             <<>>, <<>>)

\* ---- inputs ----

NsisFileNames == << <<"f">>, <<"g", ".", "e", "x", "e">>, <<".", "h">>,
                    <<"i", ".", "d", "l", "l">> >>
NsisFileLists == {SubSeq(NsisFileNames, 1, k) : k \in 0..MaxNsisFiles}
NsisDir(name, tree) == [name |-> name, tree |-> tree]
NsisTree(dirs, files) == [dirs |-> dirs, files |-> files]

\* directories without subdirectories
Leaves == {NsisTree(<<>>, files) : files \in NsisFileLists}

\* directories with at most one subdirectory, which is a leaf
Branches ==
    {NsisTree(dirs, files) :
        dirs \in {<<>>} \cup {<<NsisDir(<<"l">>, t)>> : t \in Leaves},
        files \in NsisFileLists}

\* the walked directory: up to two subdirectories, l and l2, in either order
DistTrees ==
    {NsisTree(dirs, files) :
        dirs \in {<<>>}
            \cup {<<NsisDir(n, t)>> : n \in {<<"l">>, <<"l", "2">>},
                                      t \in Branches}
            \cup {<<NsisDir(n[1], t), NsisDir(n[2], u)>> :
                     n \in {<< <<"l">>, <<"l", "2">> >>,
                            << <<"l", "2">>, <<"l">> >>},
                     t \in Branches, u \in Branches},
        files \in NsisFileLists}

NonePath == [isNone |-> TRUE, path |-> <<>>]
SomePath(path) == [isNone |-> FALSE, path |-> path]

\* the two calls of write_nsis_expressions_to_files, and a call with neither
\* optional argument
NsisCalls ==
    {[parent_directory |-> NonePath, directory_to_separate |-> NonePath],
     [parent_directory |-> NonePath,
      directory_to_separate |-> SomePath(DIRECTORY_TO_WALK \o << <<"l">> >>)],
     [parent_directory |-> SomePath(<< <<"s">>, <<"l">> >>),
      directory_to_separate |-> NonePath]}

NsisInputs ==
    {[tree |-> t, call |-> c] : t \in DistTrees, c \in NsisCalls}

GenerateExpressions ==
    /\ lastOp.name = "init"
    /\ lastOp' = [name |-> "_generate_add_remove_nsis_expressions", key |-> ""]
    /\ result' = Returned(generate_add_remove_nsis_expressions(
                              arg.tree, DIRECTORY_TO_WALK,
                              arg.call.parent_directory,
                              arg.call.directory_to_separate))
    /\ UNCHANGED <<mem, disk, dirExists, purged, lastFull, lastIo, arg,
                   debugCli, chaffVars>>
    /\ UNCHANGED localeVars

InitNsis ==
    /\ StoreStartsWith({NoFile}, NsisInputs, {FALSE})
    /\ LocaleStarts({CHOOSE t \in TreeChoices : ~t.children[1].isRegex},
                    {CHOOSE f \in FsChoices : f.dirs = {<<>>}})

NextNsis == GenerateExpressions

SpecNsis == InitNsis /\ [][NextNsis]_vars

\* the directories that get lines: those the walk yields, each with its path
\* on disk
WalkedDirs(input) ==
    LET steps == os_walk(input.tree, DIRECTORY_TO_WALK)
        kept == {k \in DOMAIN steps :
                    \/ input.call.directory_to_separate.isNone
                    \/ ~root_startswith(steps[k].root,
                                   input.call.directory_to_separate.path)}
    IN  {[root |-> steps[k].root,
          files |-> steps[k].files,
          rel |-> Walked(steps[k].root, steps[k].files, DIRECTORY_TO_WALK,
                         input.call.parent_directory).relative_folder_path] :
            k \in kept}

\* where the lines of a directory are in a text
RMDirAt(lines, dir) ==
    {k \in DOMAIN lines : /\ lines[k].op = "RMDir"
                          /\ lines[k].path = INSTDIR \o dir.rel}
DeleteAt(lines, dir) ==
    {k \in DOMAIN lines :
        /\ lines[k].op = "Delete"
        /\ \E j \in DOMAIN dir.files :
              lines[k].path =
                 (IF dir.rel = <<Dot>> THEN INSTDIR ELSE INSTDIR \o dir.rel)
                    \o <<dir.files[j]>>}
SetOutPathAt(lines, dir) ==
    {k \in DOMAIN lines : /\ lines[k].op = "SetOutPath"
                          /\ lines[k].path = INSTDIR \o dir.rel}
FileAt(lines, dir) ==
    {k \in DOMAIN lines :
        /\ lines[k].op = "File"
        /\ dir.files # <<>>
        /\ \E j \in DOMAIN lines[k].files :
              lines[k].files[j] =
                 DIRECTORY_PREFIX_FOR_NSIS \o dir.root \o <<dir.files[1]>>}

\* C30: in the uninstall expressions every directory's Delete lines come
\* before its RMDir line, and a subdirectory's RMDir line before its
\* parent's; in the install expressions the nearest SetOutPath line before a
\* File line is the one of the File line's own directory.
C30_NsisOrder ==
    lastOp.name = "_generate_add_remove_nsis_expressions" =>
        LET uninstall == result.value.uninstall
            install == result.value.install
            dirs == WalkedDirs(arg)
        IN  /\ \A dir \in dirs :
                  /\ Cardinality(RMDirAt(uninstall, dir)) = 1
                  /\ Cardinality(DeleteAt(uninstall, dir)) = Len(dir.files)
                  /\ \A k \in DeleteAt(uninstall, dir),
                        r \in RMDirAt(uninstall, dir) : k < r
            /\ \A sub \in dirs, dir \in dirs :
                  (Len(sub.root) > Len(dir.root)
                     /\ SubSeq(sub.root, 1, Len(dir.root)) = dir.root)
                  => \A s \in RMDirAt(uninstall, sub),
                        r \in RMDirAt(uninstall, dir) : s < r
            /\ \A dir \in dirs :
                  /\ (dir.files # <<>>) =>
                        Cardinality(FileAt(install, dir)) = 1
                  /\ \A k \in FileAt(install, dir) :
                        /\ \E j \in SetOutPathAt(install, dir) : j < k
                        /\ \A j \in 1..(k - 1) :
                              install[j].op = "SetOutPath" =>
                                 \E own \in SetOutPathAt(install, dir) :
                                    j <= own /\ own < k
            /\ \A k \in DOMAIN install :
                  install[k].op = "File" =>
                     \E dir \in dirs : k \in FileAt(install, dir)

\* C30 witness: a directory with files, a subdirectory with files and a
\* directory below that with files have their lines in both texts.
C30_Witness ==
    /\ lastOp.name = "_generate_add_remove_nsis_expressions"
    /\ \E top \in WalkedDirs(arg), sub \in WalkedDirs(arg),
          low \in WalkedDirs(arg) :
          /\ Len(top.root) = 1 /\ Len(sub.root) = 2 /\ Len(low.root) = 3
          /\ SubSeq(low.root, 1, 2) = sub.root
          /\ DeleteAt(result.value.uninstall, top) # {}
          /\ DeleteAt(result.value.uninstall, sub) # {}
          /\ DeleteAt(result.value.uninstall, low) # {}
          /\ FileAt(result.value.install, low) # {}
          /\ Len(result.value.uninstall) >= 6

====
